---- MODULE Spec2Model ----
(***************************************************************************)
(* Model of the Stretch Video warp engine (orrodigital/App1):              *)
(*   - the vertex-warp function applyWarp of the WebGL vertex shader       *)
(*     (web VideoProcessor) and of the Metal shader (WarpShader.metal);    *)
(*   - the uniform upload of VideoProcessor.render (16 point cap);         *)
(*   - the control point stores of the web editor and of the Swift app;    *)
(*   - mesh generation (createMesh / generateMesh);                        *)
(*   - the life cycle of the web VideoProcessor (init, loadVideo, render,  *)
(*     destroy).                                                           *)
(*                                                                         *)
(* Floats are fixed-point integers: 1.0 is SCALE units. The Metal epsilon  *)
(* 0.001 is MetalEpsilon units, so that the grid holds distances below it. *)
(***************************************************************************)
EXTENDS Integers, Sequences, FiniteSets, TLC

VARIABLES
  \* ---- evaluation of the vertex-warp function (one shader invocation)
  w_position,      \* the vertex handed to applyWarp
  w_points,        \* the control point buffer / uniform arrays (16 slots)
  w_num,           \* numControlPoints / u_numControlPoints
  w_global,        \* globalStrength / u_globalStrength
  w_interp,        \* interpolationType (Metal only)
  w_web,           \* result of the WebGL applyWarp, or NoResult
  w_metal,         \* result of the Metal applyWarp, or NoResult
  w_time,          \* the time uniform (u_time / uniforms.time)
  w_evalTimes,     \* values of the time uniform at the WebGL evaluations (history)
  \* ---- the 16 point cap: a store of many points and the field of a tick
  c_store,         \* the control points, in insertion order
  c_edits,         \* store mutations so far (bounded)
  c_tickStore,     \* the store as it was at the start of the last tick
  c_webField,      \* field of the last tick of the web renderer, or NoResult
  c_metalField,    \* field of the last tick of the Metal evaluator, or NoResult
  \* ---- the control point stores and their editors
  platform,        \* "web" (React app) or "swift" (SwiftUI app)
  e_points,        \* web: App state controlPoints
  e_global,        \* web: warpSettings.strength
  e_selected,      \* web: VideoEditor selectedPointId (NoId = null)
  e_dragging,      \* web: VideoEditor isDragging
  e_panelSelected, \* web: ExportPanel selectedPointId (NoId = null)
  e_now,           \* web: the value Date.now() returns
  e_retired,       \* web: ids of the points removed so far (history)
  s_points,        \* swift: VideoProcessor.controlPoints
  s_global,        \* swift: warpSettings.globalStrength
  s_videoSize,     \* swift: VideoProcessor.videoSize (natural size)
  s_viewSize,      \* swift: VideoEditorView.videoViewSize
  s_nextUuid,      \* swift: the next value UUID() returns
  s_retired,       \* swift: ids of the points removed so far (history)
  \* ---- mesh generation
  m_engine,        \* "web" (createMesh), "metal" (generateMesh) or "none"
  g_pc,            \* createMesh: the loop it is in
  g_y,             \* createMesh: loop variable y
  g_x,             \* createMesh: loop variable x
  g_vertices,      \* createMesh: vertices (two numbers per vertex)
  g_texCoords,     \* createMesh: texCoords (two numbers per vertex)
  g_indices,       \* createMesh: indices
  g_vertexBuffer,  \* createMesh: contents of the ARRAY_BUFFER
  g_indexBuffer,   \* createMesh: contents of the ELEMENT_ARRAY_BUFFER
  k_base,          \* generateMesh: every thread below this index has run
  k_ahead,         \* generateMesh: the threads at or above k_base that have run
  k_vertices,      \* generateMesh: the written slots of the vertices buffer
  k_indices,       \* generateMesh: the written slots of the indices buffer
  \* ---- life cycle of the web VideoProcessor
  l_isInitialized, \* VideoProcessor.isInitialized
  l_video,         \* VideoProcessor.video (NoVideo = null)
  l_shaderProgram, \* VideoProcessor.shaderProgram (Null or a GL object)
  l_texture,       \* VideoProcessor.texture
  l_vertexBuffer,  \* VideoProcessor.vertexBuffer
  l_indexBuffer,   \* VideoProcessor.indexBuffer
  l_controlPoints, \* VideoProcessor.controlPoints
  l_warpSettings,  \* VideoProcessor.warpSettings
  l_live,          \* GL objects created and not passed to gl.delete*
  l_pending,       \* video elements whose load callbacks may still fire
  l_ready,         \* video elements with readyState >= HAVE_CURRENT_DATA
  l_nextVideo,     \* the next video element document.createElement returns
  l_textureSetup,  \* setupVideoTexture has set the texture parameters
  l_destroyed,     \* destroy() has been called (history)
  l_lastRender,    \* what the last render() did: "none", "returned", "drew"
  l_lastRenderLate, \* the last render() was called after destroy() (history)
  l_usedReleased,  \* the last render() used a null or deleted handle (history)
  l_texFrame,      \* the video whose frame the texture holds (NoVideo: none)
  l_surface,       \* what the canvas shows: the last draw, if any
  l_mesh,          \* the mesh in the vertex and index buffers (history)
  \* ---- PerformanceMonitor
  p_isMonitoring,  \* PerformanceMonitor.isMonitoring
  p_pending,       \* updateMetrics callbacks requestAnimationFrame holds
  p_calls,         \* startMonitoring / stopMonitoring calls made so far
  p_frames,        \* animation frames that have fired
  \* ---- the Swift VideoProcessor and ContentView
  v_asset,          \* VideoProcessor.asset (NoAsset = nil)
  v_player,         \* VideoProcessor.player: the asset it plays
  v_playerItem,     \* VideoProcessor.playerItem: the asset it wraps
  v_videoMetadata,  \* VideoProcessor.videoMetadata: the asset it describes
  v_isLoaded,       \* VideoProcessor.isLoaded
  v_isProcessing,   \* VideoProcessor.isProcessing
  v_errorMessage,   \* VideoProcessor.errorMessage # nil
  v_videoComposition, \* VideoProcessor.videoComposition: the asset it was made of
  v_controlPoints,  \* VideoProcessor.controlPoints.count
  v_nextAsset,      \* the next AVAsset created
  v_result,         \* the last call on the processor and what it threw (history)
  n_isLoading,      \* ContentView.isLoading
  n_errorMessage,   \* ContentView.errorMessage # nil
  n_showingVideoEditor, \* ContentView.showingVideoEditor
  n_stage,          \* the load attempt: idle, transfer (loadTransferable), task
  \* ---- VideoUploader
  u_waiting,       \* handleFileSelect runs awaiting processVideoFile
  u_isProcessing,  \* VideoUploader.isProcessing
  u_error,         \* VideoUploader.error # null
  u_uploaded,      \* the runs whose file was passed to onVideoUpload (history)
  u_finished,      \* the runs that have returned, with the state they left (history)
  u_nextRun,       \* the number of the next handleFileSelect run
  \* ---- export: ExportView (Swift) and App / ExportPanel (web)
  x_sheet,         \* the ExportView instance on screen (NoId: none)
  x_isExporting,   \* isExporting of the ExportView on screen
  x_tasks,         \* ExportView instances whose export Task is running
  x_exportError,   \* exportError # nil in the ExportView on screen
  x_ended,         \* ExportView instances whose export Task has ended (history)
  x_nextView,      \* the next ExportView instance
  x_webIsExporting, \* App.isExporting
  x_webPoints,     \* App.controlPoints.length
  x_webExports,    \* handleExport calls that have returned
  \* ---- construction of a processor and its use by the caller
  b_engine,        \* "web" (new VideoProcessor(canvas)), "swift" (VideoProcessor())
  b_fault,         \* the acquisition that fails, "none", or "pending" before
  b_held,          \* the caller has received the instance
  b_error,         \* an error reached the caller of the initializer
  b_device,        \* swift: device is not nil
  b_commandQueue,  \* swift: commandQueue is not nil
  b_isLoaded,      \* swift: isLoaded
  b_composition,   \* swift: videoComposition is not nil
  b_frames,        \* swift: frames WarpVideoCompositor.startRequest composed
  \* ---- the store and the list the renderer holds
  y_engine,        \* "web" or "swift"
  y_store,         \* the store: App state controlPoints / VideoProcessor.controlPoints
  y_global,        \* the store: warpSettings.strength / warpSettings.globalStrength
  y_storeComplete, \* no mutation of y_store is part-way through (history)
  y_pc,            \* swift: the position of updateControlPoint and its arguments
  y_effect,        \* web: the warp effect of VideoEditor is scheduled
  y_held,          \* the points and parameters the renderer holds
  y_tick,          \* the last tick: did it run, what its inputs were (history)
  \* ---- tick requests of the browser and the executions of render
  t_queue,         \* tasks of the event loop not yet run, in order
  t_active,        \* calls of render / destroy begun and not returned: their positions
  t_destroyed,     \* destroy() has returned
  t_ticks          \* render calls that have returned (bounded)

warpVars == <<w_position, w_points, w_num, w_global, w_interp, w_web, w_metal,
              w_time, w_evalTimes>>
capVars == <<c_store, c_edits, c_tickStore, c_webField, c_metalField>>

webVars == <<e_points, e_global, e_selected, e_dragging, e_panelSelected,
             e_now, e_retired>>
swiftVars == <<s_points, s_global, s_videoSize, s_viewSize, s_nextUuid,
               s_retired>>
storeVars == <<platform, webVars, swiftVars>>

meshVars == <<m_engine, g_pc, g_y, g_x, g_vertices, g_texCoords, g_indices,
              g_vertexBuffer, g_indexBuffer, k_base, k_ahead, k_vertices,
              k_indices>>
lifeVars == <<l_isInitialized, l_video, l_shaderProgram, l_texture,
              l_vertexBuffer, l_indexBuffer, l_controlPoints, l_warpSettings,
              l_live, l_pending, l_ready, l_nextVideo, l_textureSetup,
              l_destroyed, l_lastRender, l_lastRenderLate, l_usedReleased,
              l_texFrame, l_surface, l_mesh>>

bootVars == <<b_engine, b_fault, b_held, b_error, b_device, b_commandQueue,
              b_isLoaded, b_composition, b_frames>>

syncVars == <<y_engine, y_store, y_global, y_storeComplete, y_pc, y_effect,
              y_held, y_tick>>

tickVars == <<t_queue, t_active, t_destroyed, t_ticks>>

monVars == <<p_isMonitoring, p_pending, p_calls, p_frames>>

procVars == <<v_asset, v_player, v_playerItem, v_videoMetadata, v_isLoaded,
              v_isProcessing, v_errorMessage, v_videoComposition,
              v_controlPoints, v_nextAsset, v_result, n_isLoading,
              n_errorMessage, n_showingVideoEditor, n_stage>>

upVars == <<u_waiting, u_isProcessing, u_error, u_uploaded, u_finished, u_nextRun>>

expVars == <<x_sheet, x_isExporting, x_tasks, x_exportError, x_ended,
             x_nextView, x_webIsExporting, x_webPoints, x_webExports>>

vars == <<warpVars, capVars, storeVars, meshVars, lifeVars, bootVars, syncVars,
          tickVars,
         monVars,
         procVars,
         upVars,
         expVars>>

-----------------------------------------------------------------------------
(* Fixed-point arithmetic                                                  *)

MetalEpsilonInv == 1000          \* 0.001 = 1 / 1000
SCALE == 2 * MetalEpsilonInv     \* units per 1.0
MetalEpsilon == SCALE \div MetalEpsilonInv
MaxControlPoints == 16
StretchInv == 10                 \* the factor 0.1 of a stretch contribution
AnchorInv == 20                  \* the factor 0.05 of an anchor contribution

NoResult == <<>>

Min(a, b) == IF a <= b THEN a ELSE b
Max(a, b) == IF a >= b THEN a ELSE b

\* division rounding toward zero, as a float product loses its low digits
\* symmetrically in both directions
TruncDiv(a, b) == IF a >= 0 THEN a \div b ELSE -((-a) \div b)

RECURSIVE SqrtSearch(_, _, _)
SqrtSearch(n, lo, hi) ==
  IF lo >= hi THEN lo
  ELSE LET mid == (lo + hi + 1) \div 2
       IN IF mid * mid <= n THEN SqrtSearch(n, mid, hi)
                            ELSE SqrtSearch(n, lo, mid - 1)

\* floor of the square root
ISqrt(n) == SqrtSearch(n, 0, 2 * SCALE)

\* length(v) of GLSL / Metal
length(v) == ISqrt(v[1] * v[1] + v[2] * v[2])

clamp(x, lo, hi) == Max(lo, Min(hi, x))

clamp2(v, lo, hi) == <<clamp(v[1], lo, hi), clamp(v[2], lo, hi)>>

\* t * t * (3 - 2 t) on fixed-point t
Hermite(t) == (((t * t) \div SCALE) * (3 * SCALE - 2 * t)) \div SCALE

\* smoothstep(0.0, 1.0, x) of GLSL / Metal: the argument is clamped first
smoothstep(x) == Hermite(clamp(x, 0, SCALE))

\* strength * influence * globalStrength
AmountGlobalSquared(strength, influence, global) ==
  (((((strength * influence) \div SCALE) * global) \div SCALE) * global) \div SCALE
Amount(strength, influence, global) ==
  (((strength * influence) \div SCALE) * global) \div SCALE

\* normalize(offset) * amount * (1 / inv)
AlongDirection(offset, distance, amount, inv) ==
  <<TruncDiv(offset[1] * amount, distance * inv),
    TruncDiv(offset[2] * amount, distance * inv)>>

\* offset * amount * (1 / inv)
AlongOffset(offset, amount, inv) ==
  <<TruncDiv(offset[1] * amount, SCALE * inv),
    TruncDiv(offset[2] * amount, SCALE * inv)>>

\* 1.0 - (distance / radius)
RawInfluence(distance, radius) == SCALE - ((distance * SCALE) \div radius)

-----------------------------------------------------------------------------
(* The WebGL vertex shader                                                 *)

\* the loop header: i < u_numControlPoints && i < 16
WebLoopCountNoNum(num) == MaxControlPoints
WebLoopCountTimed(num) == IF w_time = 0 THEN Min(num, MaxControlPoints) ELSE 0
WebLoopCount(num) == Min(num, MaxControlPoints)

\* the test that lets a point act on the vertex
WebInRange(distance, radius) == distance < radius /\ distance > 0

\* the body of the loop for one control point; returns the new warpedPos
WebStep(warpedPos, position, point, global) ==
  LET offset == <<position[1] - point.position[1],
                  position[2] - point.position[2]>>
      distance == length(offset)
  IN IF WebInRange(distance, point.radius)
     THEN LET influence == smoothstep(RawInfluence(distance, point.radius))
              warpAmount == Amount(point.strength, influence, global)
              d == AlongDirection(offset, distance, warpAmount, StretchInv)
          IN <<warpedPos[1] + d[1], warpedPos[2] + d[2]>>
     ELSE warpedPos

RECURSIVE WebLoop(_, _, _, _, _, _)
WebLoop(i, n, warpedPos, position, points, global) ==
  IF i > n THEN warpedPos
  ELSE WebLoop(i + 1, n, WebStep(warpedPos, position, points[i], global),
               position, points, global)

\* vec2 applyWarp(vec2 position) with the uniforms as arguments
WebApplyWarp(position, points, num, global) ==
  WebLoop(1, WebLoopCount(num), position, position, points, global)

-----------------------------------------------------------------------------
(* The Metal shader                                                        *)

MetalLoopCountNoNum(num) == MaxControlPoints
MetalLoopCountUncapped(num) == num
MetalLoopCount(num) == Min(num, MaxControlPoints)

\* the negation of: distance >= point.radius || distance < 0.001
MetalInRangeNoRadius(distance, radius) == ~(distance < MetalEpsilon)
MetalInRangeWebTest(distance, radius) == distance < radius /\ distance > 0
MetalInRange(distance, radius) ==
  ~(distance >= radius \/ distance < MetalEpsilon)

\* switch (uniforms.interpolationType)
MetalKernel(interp, influence) ==
  CASE interp = 0 -> influence
    [] interp = 1 -> smoothstep(influence)
    [] interp = 2 -> Hermite(influence)
    [] OTHER -> influence

MetalStep(warpedPosition, position, point, global, interp) ==
  LET offset == <<position[1] - point.position[1],
                  position[2] - point.position[2]>>
      distance == length(offset)
  IN IF ~MetalInRange(distance, point.radius)
     THEN warpedPosition
     ELSE LET influence == MetalKernel(interp, RawInfluence(distance, point.radius))
              amount == Amount(point.strength, influence, global)
          IN IF point.type = 0
             THEN LET d == AlongDirection(offset, distance, amount, StretchInv)
                  IN <<warpedPosition[1] + d[1], warpedPosition[2] + d[2]>>
             ELSE LET d == AlongOffset(offset, amount, AnchorInv)
                  IN <<warpedPosition[1] - d[1], warpedPosition[2] - d[2]>>

RECURSIVE MetalLoop(_, _, _, _, _, _, _)
MetalLoop(i, n, warpedPosition, position, points, global, interp) ==
  IF i > n THEN warpedPosition
  ELSE MetalLoop(i + 1, n,
                 MetalStep(warpedPosition, position, points[i], global, interp),
                 position, points, global, interp)

\* the final clamp(warpedPosition, float2(0.0), float2(1.0))
MetalClampNone(v) == v
MetalClamp(v) == clamp2(v, 0, SCALE)

\* float2 applyWarp(position, controlPoints, uniforms)
MetalApplyWarp(position, points, num, global, interp) ==
  MetalClamp(MetalLoop(1, MetalLoopCount(num), position, position, points,
                       global, interp))

-----------------------------------------------------------------------------
(* The uniform upload of a render tick and the field it produces           *)

\* gl.uniform1i(numPointsLocation, Math.min(this.controlPoints.length, 16))
RenderNumPoints(store) == Min(Len(store), MaxControlPoints)

\* this.controlPoints.slice(0, 16)
RenderSlice(store) == SubSeq(store, 1, Min(Len(store), MaxControlPoints))

\* points / strengths / radii: new Float32Array(..) filled from the slice;
\* the uniforms carry no point type
RenderPointUniforms(store) ==
  LET sl == RenderSlice(store)
  IN [i \in 1..MaxControlPoints |->
        IF i <= Len(sl)
        THEN [position |-> sl[i].position, strength |-> sl[i].strength,
              radius |-> sl[i].radius, type |-> 0]
        ELSE [position |-> <<0, 0>>, strength |-> 0, radius |-> 0, type |-> 0]]

\* the vertices whose warped position stands for the field of a tick
ProbeVertices == {<<SCALE \div 2, (4 * SCALE) \div 10>>,
                  <<SCALE \div 2, (9 * SCALE) \div 20>>}

\* the field drawn by VideoProcessor.render for the store
WebTickField(store, global) ==
  [v \in ProbeVertices |->
     WebApplyWarp(v, RenderPointUniforms(store), RenderNumPoints(store), global)]

\* the buffer and the count the Metal shader is given: the whole store
MetalTickBuffer(store) ==
  [i \in 1..Max(Len(store), MaxControlPoints) |->
     IF i <= Len(store) THEN store[i]
     ELSE [position |-> <<0, 0>>, strength |-> 0, radius |-> 0, type |-> 0]]

MetalTickField(store, global, interp) ==
  [v \in ProbeVertices |->
     MetalApplyWarp(v, MetalTickBuffer(store), Len(store), global, interp)]

MaxStorePoints == 18             \* points the store may hold
MinStartPoints == 14             \* points of the smallest starting store
MaxCapEdits == 2                 \* store mutations of one run

DefaultGlobalStrength == SCALE   \* strength: 1.0 / globalStrength = 1.0
DefaultInterpolation == 1        \* 'smooth' / .smooth

\* two points acting on the probe vertices from opposite sides
CapPointA == [position |-> <<SCALE \div 2, SCALE \div 2>>,
              strength |-> SCALE \div 5, radius |-> SCALE \div 5, type |-> 0]
CapPointB == [position |-> <<SCALE \div 2, (3 * SCALE) \div 10>>,
              strength |-> SCALE \div 2, radius |-> SCALE \div 5, type |-> 0]
CapPointPool == {CapPointA, CapPointB}

\* a store of k points A followed by m points B
CapBlock(k, m) == [i \in 1..(k + m) |-> IF i <= k THEN CapPointA ELSE CapPointB]

CapIdle ==
  /\ c_store = <<>>
  /\ c_edits = 0
  /\ c_tickStore = <<>>
  /\ c_webField = NoResult
  /\ c_metalField = NoResult

CapInit ==
  /\ \E n \in MinStartPoints..(MaxStorePoints - 1) : \E k \in 0..n :
       c_store = CapBlock(k, n - k)
  /\ c_edits = 0
  /\ c_tickStore = <<>>
  /\ c_webField = NoResult
  /\ c_metalField = NoResult

\* a new point is appended to the store (handleCanvasClick / addControlPoint)
CapAddPoint ==
  /\ c_edits < MaxCapEdits
  /\ Len(c_store) < MaxStorePoints
  /\ \E pt \in CapPointPool : c_store' = Append(c_store, pt)
  /\ c_edits' = c_edits + 1
  /\ UNCHANGED <<c_tickStore, c_webField, c_metalField>>
  /\ UNCHANGED <<warpVars, storeVars, meshVars, lifeVars, bootVars, syncVars, tickVars, monVars, procVars, upVars, expVars>>

\* the point at some position of the store is removed (filter / removeAll by id)
CapRemovePoint ==
  /\ c_edits < MaxCapEdits
  /\ \E i \in 1..Len(c_store) :
       c_store' = SubSeq(c_store, 1, i - 1) \o SubSeq(c_store, i + 1, Len(c_store))
  /\ c_edits' = c_edits + 1
  /\ UNCHANGED <<c_tickStore, c_webField, c_metalField>>
  /\ UNCHANGED <<warpVars, storeVars, meshVars, lifeVars, bootVars, syncVars, tickVars, monVars, procVars, upVars, expVars>>

\* a render tick of the web renderer
CapWebTick ==
  /\ c_tickStore' = c_store
  /\ c_webField' = WebTickField(c_store, DefaultGlobalStrength)
  /\ c_metalField' = NoResult
  /\ UNCHANGED <<c_store, c_edits>>
  /\ UNCHANGED <<warpVars, storeVars, meshVars, lifeVars, bootVars, syncVars, tickVars, monVars, procVars, upVars, expVars>>

\* a tick of the Metal evaluator
CapMetalTick ==
  /\ c_tickStore' = c_store
  /\ c_metalField' = MetalTickField(c_store, DefaultGlobalStrength,
                                    DefaultInterpolation)
  /\ c_webField' = NoResult
  /\ UNCHANGED <<c_store, c_edits>>
  /\ UNCHANGED <<warpVars, storeVars, meshVars, lifeVars, bootVars, syncVars, tickVars, monVars, procVars, upVars, expVars>>

CapNext == CapAddPoint \/ CapRemovePoint \/ CapWebTick \/ CapMetalTick

-----------------------------------------------------------------------------
(* The control point store of the web app (App, VideoEditor, ExportPanel)  *)

NoId == 0

MaxEditorPoints == 2             \* points a store holds in the editor runs
MaxClock == 2                    \* values Date.now() takes in a run
MaxUuid == 2                     \* values UUID() returns in a run

\* screenToVideoCoords: the normalized coordinate, clamped into [0,1]
screenToVideoCoords(raw) ==
  <<Max(0, Min(SCALE, raw[1])), Max(0, Min(SCALE, raw[2]))>>

\* 20 / Math.min(canvasSize.width, canvasSize.height), for a 400 x 300 canvas
clickRadius == (20 * SCALE) \div Min(400, 300)

\* controlPoints.find(point => distance < clickRadius): the first such index,
\* or 0
RECURSIVE FindNear(_, _, _)
FindNear(points, coords, i) ==
  IF i > Len(points) THEN 0
  ELSE IF length(<<points[i].x - coords[1], points[i].y - coords[2]>>) < clickRadius
       THEN i
       ELSE FindNear(points, coords, i + 1)

\* the id handleCanvasClick gives a new point: `point_${Date.now()}`
NewWebId(now) == now

\* the positions (clientX - rect.left) / rect.width a mouse event may carry,
\* inside and outside the canvas
RawMouse == { <<SCALE \div 4, SCALE \div 4>>, <<SCALE \div 2, SCALE \div 2>>,
              <<(5 * SCALE) \div 4, -(SCALE \div 4)>> }

\* values of the range inputs (min 0 max 2, and min 0.05 max 0.5): their maxima
StrengthSlider == {2 * SCALE}
RadiusSlider == {SCALE \div 2}

WebIds(points) == {points[i].id : i \in 1..Len(points)}

\* points.filter(p => p.id !== id)
RECURSIVE FilterOutId(_, _)
FilterOutId(points, id) ==
  IF points = <<>> THEN <<>>
  ELSE IF Head(points).id = id THEN FilterOutId(Tail(points), id)
       ELSE <<Head(points)>> \o FilterOutId(Tail(points), id)

WebIdle ==
  /\ e_points = <<>>
  /\ e_global = SCALE
  /\ e_selected = NoId
  /\ e_dragging = FALSE
  /\ e_panelSelected = NoId
  /\ e_now = 1
  /\ e_retired = {}

\* Date.now() advances between two events, or does not
ClockAdvance ==
  /\ platform = "web"
  /\ e_now < MaxClock
  /\ e_now' = e_now + 1
  /\ UNCHANGED <<e_points, e_global, e_selected, e_dragging, e_panelSelected,
                 e_retired>>
  /\ UNCHANGED <<platform, swiftVars, warpVars, capVars, meshVars, lifeVars, bootVars, syncVars, tickVars, monVars, procVars, upVars, expVars>>

handleCanvasClick ==
  /\ platform = "web"
  /\ ~e_dragging
  /\ \E raw \in RawMouse :
       LET coords == screenToVideoCoords(raw)
           near == FindNear(e_points, coords, 1)
       IN IF near # 0
          THEN /\ e_selected' = e_points[near].id
               /\ UNCHANGED e_points
          ELSE /\ Len(e_points) < MaxEditorPoints
               /\ e_points' = Append(e_points,
                     [id |-> NewWebId(e_now), x |-> coords[1], y |-> coords[2],
                      type |-> "stretch", strength |-> SCALE,
                      radius |-> SCALE \div 10, locked |-> FALSE])
               /\ e_selected' = NewWebId(e_now)
  /\ UNCHANGED <<e_global, e_dragging, e_panelSelected, e_now, e_retired>>
  /\ UNCHANGED <<platform, swiftVars, warpVars, capVars, meshVars, lifeVars, bootVars, syncVars, tickVars, monVars, procVars, upVars, expVars>>

handleMouseDown ==
  /\ platform = "web"
  /\ \E raw \in RawMouse :
       LET coords == screenToVideoCoords(raw)
           near == FindNear(e_points, coords, 1)
       IN IF near # 0 /\ ~e_points[near].locked
          THEN /\ e_selected' = e_points[near].id
               /\ e_dragging' = TRUE
          ELSE UNCHANGED <<e_selected, e_dragging>>
  /\ UNCHANGED <<e_points, e_global, e_panelSelected, e_now, e_retired>>
  /\ UNCHANGED <<platform, swiftVars, warpVars, capVars, meshVars, lifeVars, bootVars, syncVars, tickVars, monVars, procVars, upVars, expVars>>

handleMouseMove ==
  /\ platform = "web"
  /\ e_dragging
  /\ e_selected # NoId
  /\ \E raw \in RawMouse :
       LET coords == screenToVideoCoords(raw)
       IN e_points' = [i \in 1..Len(e_points) |->
            IF e_points[i].id = e_selected /\ ~e_points[i].locked
            THEN [e_points[i] EXCEPT !.x = coords[1], !.y = coords[2]]
            ELSE e_points[i]]
  /\ UNCHANGED <<e_global, e_selected, e_dragging, e_panelSelected, e_now,
                 e_retired>>
  /\ UNCHANGED <<platform, swiftVars, warpVars, capVars, meshVars, lifeVars, bootVars, syncVars, tickVars, monVars, procVars, upVars, expVars>>

handleMouseUp ==
  /\ platform = "web"
  /\ e_dragging
  /\ e_dragging' = FALSE
  /\ UNCHANGED <<e_points, e_global, e_selected, e_panelSelected, e_now,
                 e_retired>>
  /\ UNCHANGED <<platform, swiftVars, warpVars, capVars, meshVars, lifeVars, bootVars, syncVars, tickVars, monVars, procVars, upVars, expVars>>

\* keydown Delete / Backspace in the editor
handleKeyDownDelete ==
  /\ platform = "web"
  /\ e_selected # NoId
  /\ e_points' = FilterOutId(e_points, e_selected)
  /\ e_retired' = e_retired \cup (WebIds(e_points) \cap {e_selected})
  /\ e_selected' = NoId
  /\ UNCHANGED <<e_global, e_dragging, e_panelSelected, e_now>>
  /\ UNCHANGED <<platform, swiftVars, warpVars, capVars, meshVars, lifeVars, bootVars, syncVars, tickVars, monVars, procVars, upVars, expVars>>

\* a click on an entry of the point list of the panel
PanelSelectPoint ==
  /\ platform = "web"
  /\ \E i \in 1..Len(e_points) : e_panelSelected' = e_points[i].id
  /\ UNCHANGED <<e_points, e_global, e_selected, e_dragging, e_now, e_retired>>
  /\ UNCHANGED <<platform, swiftVars, warpVars, capVars, meshVars, lifeVars, bootVars, syncVars, tickVars, monVars, procVars, upVars, expVars>>

\* the editor of the selected point is shown when the id is in the store
PanelHasSelected == e_panelSelected \in WebIds(e_points)

PanelStrengthChange ==
  /\ platform = "web"
  /\ PanelHasSelected
  /\ \E v \in StrengthSlider :
       e_points' = [i \in 1..Len(e_points) |->
            IF e_points[i].id = e_panelSelected
            THEN [e_points[i] EXCEPT !.strength = v] ELSE e_points[i]]
  /\ UNCHANGED <<e_global, e_selected, e_dragging, e_panelSelected, e_now,
                 e_retired>>
  /\ UNCHANGED <<platform, swiftVars, warpVars, capVars, meshVars, lifeVars, bootVars, syncVars, tickVars, monVars, procVars, upVars, expVars>>

PanelRadiusChange ==
  /\ platform = "web"
  /\ PanelHasSelected
  /\ \E v \in RadiusSlider :
       e_points' = [i \in 1..Len(e_points) |->
            IF e_points[i].id = e_panelSelected
            THEN [e_points[i] EXCEPT !.radius = v] ELSE e_points[i]]
  /\ UNCHANGED <<e_global, e_selected, e_dragging, e_panelSelected, e_now,
                 e_retired>>
  /\ UNCHANGED <<platform, swiftVars, warpVars, capVars, meshVars, lifeVars, bootVars, syncVars, tickVars, monVars, procVars, upVars, expVars>>

PanelToggleType ==
  /\ platform = "web"
  /\ PanelHasSelected
  /\ e_points' = [i \in 1..Len(e_points) |->
            IF e_points[i].id = e_panelSelected
            THEN [e_points[i] EXCEPT !.type =
                    IF e_points[i].type = "stretch" THEN "anchor" ELSE "stretch"]
            ELSE e_points[i]]
  /\ UNCHANGED <<e_global, e_selected, e_dragging, e_panelSelected, e_now,
                 e_retired>>
  /\ UNCHANGED <<platform, swiftVars, warpVars, capVars, meshVars, lifeVars, bootVars, syncVars, tickVars, monVars, procVars, upVars, expVars>>

PanelDelete ==
  /\ platform = "web"
  /\ PanelHasSelected
  /\ e_points' = FilterOutId(e_points, e_panelSelected)
  /\ e_retired' = e_retired \cup {e_panelSelected}
  /\ e_panelSelected' = NoId
  /\ UNCHANGED <<e_global, e_selected, e_dragging, e_now>>
  /\ UNCHANGED <<platform, swiftVars, warpVars, capVars, meshVars, lifeVars, bootVars, syncVars, tickVars, monVars, procVars, upVars, expVars>>

\* the global strength range input of the panel
PanelGlobalStrengthChange ==
  /\ platform = "web"
  /\ \E v \in StrengthSlider : e_global' = v
  /\ UNCHANGED <<e_points, e_selected, e_dragging, e_panelSelected, e_now,
                 e_retired>>
  /\ UNCHANGED <<platform, swiftVars, warpVars, capVars, meshVars, lifeVars, bootVars, syncVars, tickVars, monVars, procVars, upVars, expVars>>

\* onNewVideo, then handleVideoUpload: the editor and the panel are mounted
\* anew and the store is emptied
handleVideoUpload ==
  /\ platform = "web"
  /\ e_points # <<>>
  /\ e_points' = <<>>
  /\ e_retired' = e_retired \cup WebIds(e_points)
  /\ e_selected' = NoId
  /\ e_dragging' = FALSE
  /\ e_panelSelected' = NoId
  /\ UNCHANGED <<e_global, e_now>>
  /\ UNCHANGED <<platform, swiftVars, warpVars, capVars, meshVars, lifeVars, bootVars, syncVars, tickVars, monVars, procVars, upVars, expVars>>

WebStoreNext ==
  \/ ClockAdvance
  \/ handleVideoUpload
  \/ handleCanvasClick
  \/ handleMouseDown
  \/ handleMouseMove
  \/ handleMouseUp
  \/ handleKeyDownDelete
  \/ PanelSelectPoint
  \/ PanelStrengthChange
  \/ PanelRadiusChange
  \/ PanelToggleType
  \/ PanelDelete
  \/ PanelGlobalStrengthChange

-----------------------------------------------------------------------------
(* Inputs of one shader invocation                                         *)

MaxWarpPoints == 2               \* points in the buffer of an evaluation

ZeroPoint == [position |-> <<0, 0>>, strength |-> 0, radius |-> 0, type |-> 0]

\* a buffer of 16 slots holding pts, the rest zero (new Float32Array(..))
Pad16(pts) ==
  [i \in 1..MaxControlPoints |-> IF i <= Len(pts) THEN pts[i] ELSE ZeroPoint]

\* vertex positions: mesh vertices of R = 4 and the vertices of the
\* end-to-end scenario of the specification, (0.5, 0.3) and (0.5, 0.4)
WarpCoords == {0, SCALE \div 4, (3 * SCALE) \div 10, (4 * SCALE) \div 10,
               SCALE \div 2, (SCALE \div 2) + 1, SCALE}
WarpVertices == {<<x, y>> \in WarpCoords \X WarpCoords :
                   x \in {SCALE \div 2, (SCALE \div 2) + 1, SCALE, 0}}

WarpPointPool ==
  { [position |-> <<SCALE \div 2, SCALE \div 2>>, strength |-> SCALE,
     radius |-> SCALE \div 5, type |-> 0],
    [position |-> <<SCALE \div 2, SCALE \div 2>>, strength |-> 2 * SCALE,
     radius |-> SCALE \div 2, type |-> 1],
    [position |-> <<(19 * SCALE) \div 20, SCALE \div 4>>, strength |-> 2 * SCALE,
     radius |-> SCALE \div 10, type |-> 0] }

WarpPointLists ==
  UNION { [1..n -> WarpPointPool] : n \in 0..MaxWarpPoints }

WarpGlobals == {0, SCALE, 2 * SCALE}

WarpIdle ==
  /\ w_position = <<0, 0>>
  /\ w_points = Pad16(<<>>)
  /\ w_num = 0
  /\ w_global = SCALE
  /\ w_interp = 1
  /\ w_web = NoResult
  /\ w_metal = NoResult
  /\ w_time = 0
  /\ w_evalTimes = {}

WarpInit ==
  /\ w_position \in WarpVertices
  /\ \E pts \in WarpPointLists :
       /\ w_points = Pad16(pts)
       /\ w_num \in 0..Len(pts)
  /\ w_global \in WarpGlobals
  /\ w_interp \in 0..2
  /\ w_web = NoResult
  /\ w_metal = NoResult
  /\ w_time = 0
  /\ w_evalTimes = {}

\* main() of the WebGL vertex shader evaluates applyWarp for the vertex
WebVertexShader ==
  /\ w_web' = WebApplyWarp(w_position, w_points, w_num, w_global)
  /\ w_evalTimes' = w_evalTimes \cup {w_time}
  /\ UNCHANGED <<w_position, w_points, w_num, w_global, w_interp, w_metal,
                 w_time>>
  /\ UNCHANGED <<capVars, storeVars, meshVars, lifeVars, bootVars, syncVars, tickVars, monVars, procVars, upVars, expVars>>

\* warpVertexShader evaluates applyWarp for the vertex
MetalVertexShader ==
  /\ w_metal' = MetalApplyWarp(w_position, w_points, w_num, w_global, w_interp)
  /\ UNCHANGED <<w_position, w_points, w_num, w_global, w_interp, w_web,
                 w_time, w_evalTimes>>
  /\ UNCHANGED <<capVars, storeVars, meshVars, lifeVars, bootVars, syncVars, tickVars, monVars, procVars, upVars, expVars>>

\* values of currentTime that render uploads as the time uniform
WarpTimes == {0, 1}

\* a later tick: render uploads another currentTime
AdvanceTime ==
  /\ w_time' \in WarpTimes \ {w_time}
  /\ UNCHANGED <<w_position, w_points, w_num, w_global, w_interp, w_web,
                 w_metal, w_evalTimes>>
  /\ UNCHANGED <<capVars, storeVars, meshVars, lifeVars, bootVars, syncVars, tickVars, monVars, procVars, upVars, expVars>>

WarpNext == WebVertexShader \/ MetalVertexShader \/ AdvanceTime


-----------------------------------------------------------------------------
(* The control point store of the Swift app (VideoProcessor and its views) *)

\* CGPoint.toViewCoordinates(in:): x * size.width, y * size.height
toViewCoordinates(p, size) ==
  <<(p[1] * size[1]) \div SCALE, (p[2] * size[2]) \div SCALE>>

\* CGPoint.fromViewCoordinates(_:in:): point.x / size.width, point.y / size.height
fromViewCoordinates(point, size) ==
  <<TruncDiv(point[1] * SCALE, size[1]), TruncDiv(point[2] * SCALE, size[2])>>

SwiftIds(points) == {points[i].id : i \in 1..Len(points)}

\* controlPoints.firstIndex(where: { $0.id == pointId }), or 0
RECURSIVE firstIndex(_, _, _)
firstIndex(points, id, i) ==
  IF i > Len(points) THEN 0
  ELSE IF points[i].id = id THEN i ELSE firstIndex(points, id, i + 1)

None == "none"

\* VideoProcessor.updateControlPoint(_:position:strength:radius:); an
\* argument left out is None
updateControlPoint(points, videoSize, pointId, position, strength, radius) ==
  LET index == firstIndex(points, pointId, 1)
  IN IF index = 0 THEN points
     ELSE [points EXCEPT
             ![index] = [@ EXCEPT
                !.position = IF position # None
                             THEN fromViewCoordinates(position, videoSize)
                             ELSE @,
                !.strength = IF strength # None THEN strength ELSE @,
                !.radius = IF radius # None THEN radius ELSE @]]

\* the sizes of a loaded video (naturalSize) and of the view that shows it
NaturalSizes == {<<320, 240>>, <<1280, 960>>}
ViewSize == <<640, 480>>

\* tap locations and drag translations, in view points
TapLocations == {<<320, 240>>, <<700, -10>>}
DragTranslations == {<<-700, -700>>, <<700, 700>>}

SwiftStrengthSlider == {2 * SCALE}
SwiftRadiusSlider == {SCALE \div 2}

SwiftIdle ==
  /\ s_points = <<>>
  /\ s_global = SCALE
  /\ s_videoSize = <<320, 240>>
  /\ s_viewSize = ViewSize
  /\ s_nextUuid = 1
  /\ s_retired = {}

\* the editor is shown once a video is loaded: videoSize is its natural size
SwiftInit ==
  /\ s_points = <<>>
  /\ s_global = SCALE
  /\ s_videoSize \in NaturalSizes
  /\ s_viewSize = ViewSize
  /\ s_nextUuid = 1
  /\ s_retired = {}

\* VideoEditorView.addControlPoint(at:), the tap gesture of the canvas
ViewAddControlPoint ==
  /\ platform = "swift"
  /\ s_viewSize # <<0, 0>>
  /\ Len(s_points) < MaxEditorPoints
  /\ s_nextUuid <= MaxUuid
  /\ \E location \in TapLocations :
       LET relativeLocation ==
             <<Max(0, Min(SCALE, TruncDiv(location[1] * SCALE, s_viewSize[1]))),
               Max(0, Min(SCALE, TruncDiv(location[2] * SCALE, s_viewSize[2])))>>
       IN s_points' = Append(s_points,
             [id |-> s_nextUuid, position |-> relativeLocation,
              type |-> "stretch", strength |-> SCALE, radius |-> SCALE \div 10,
              isLocked |-> FALSE])
  /\ s_nextUuid' = s_nextUuid + 1
  /\ UNCHANGED <<s_global, s_videoSize, s_viewSize, s_retired>>
  /\ UNCHANGED <<platform, webVars, warpVars, capVars, meshVars, lifeVars, bootVars, syncVars, tickVars, monVars, procVars, upVars, expVars>>

\* the drag gesture of ControlPointView ends: onPositionChange(clampedPosition),
\* which is videoProcessor.updateControlPoint(point.id, position: newPosition)
ControlPointDragEnded ==
  /\ platform = "swift"
  /\ \E i \in 1..Len(s_points) : \E translation \in DragTranslations :
       LET screenPosition == toViewCoordinates(s_points[i].position, s_viewSize)
           newPosition == <<screenPosition[1] + translation[1],
                            screenPosition[2] + translation[2]>>
           clampedPosition == <<Max(0, Min(s_viewSize[1], newPosition[1])),
                                Max(0, Min(s_viewSize[2], newPosition[2]))>>
       IN s_points' = updateControlPoint(s_points, s_videoSize, s_points[i].id,
                                         clampedPosition, None, None)
  /\ UNCHANGED <<s_global, s_videoSize, s_viewSize, s_nextUuid, s_retired>>
  /\ UNCHANGED <<platform, webVars, warpVars, capVars, meshVars, lifeVars, bootVars, syncVars, tickVars, monVars, procVars, upVars, expVars>>

\* ControlPointRow.onUpdate(updatedPoint): controlPoints[index] = updatedPoint
RowUpdate(i, updatedPoint) ==
  LET index == firstIndex(s_points, s_points[i].id, 1)
  IN s_points' = IF index = 0 THEN s_points
                 ELSE [s_points EXCEPT ![index] = updatedPoint]

RowStrengthChange ==
  /\ platform = "swift"
  /\ \E i \in 1..Len(s_points) : \E v \in SwiftStrengthSlider :
       RowUpdate(i, [s_points[i] EXCEPT !.strength = v])
  /\ UNCHANGED <<s_global, s_videoSize, s_viewSize, s_nextUuid, s_retired>>
  /\ UNCHANGED <<platform, webVars, warpVars, capVars, meshVars, lifeVars, bootVars, syncVars, tickVars, monVars, procVars, upVars, expVars>>

RowRadiusChange ==
  /\ platform = "swift"
  /\ \E i \in 1..Len(s_points) : \E v \in SwiftRadiusSlider :
       RowUpdate(i, [s_points[i] EXCEPT !.radius = v])
  /\ UNCHANGED <<s_global, s_videoSize, s_viewSize, s_nextUuid, s_retired>>
  /\ UNCHANGED <<platform, webVars, warpVars, capVars, meshVars, lifeVars, bootVars, syncVars, tickVars, monVars, procVars, upVars, expVars>>

RowToggleType ==
  /\ platform = "swift"
  /\ \E i \in 1..Len(s_points) :
       RowUpdate(i, [s_points[i] EXCEPT !.type =
                       IF s_points[i].type = "stretch" THEN "anchor" ELSE "stretch"])
  /\ UNCHANGED <<s_global, s_videoSize, s_viewSize, s_nextUuid, s_retired>>
  /\ UNCHANGED <<platform, webVars, warpVars, capVars, meshVars, lifeVars, bootVars, syncVars, tickVars, monVars, procVars, upVars, expVars>>

RowToggleLock ==
  /\ platform = "swift"
  /\ \E i \in 1..Len(s_points) :
       RowUpdate(i, [s_points[i] EXCEPT !.isLocked = ~s_points[i].isLocked])
  /\ UNCHANGED <<s_global, s_videoSize, s_viewSize, s_nextUuid, s_retired>>
  /\ UNCHANGED <<platform, webVars, warpVars, capVars, meshVars, lifeVars, bootVars, syncVars, tickVars, monVars, procVars, upVars, expVars>>

\* VideoProcessor.removeControlPoint(_:), the trash button of a row
removeControlPoint ==
  /\ platform = "swift"
  /\ \E i \in 1..Len(s_points) :
       /\ s_points' = SelectSeq(s_points, LAMBDA p : p.id # s_points[i].id)
       /\ s_retired' = s_retired \cup {s_points[i].id}
  /\ UNCHANGED <<s_global, s_videoSize, s_viewSize, s_nextUuid>>
  /\ UNCHANGED <<platform, webVars, warpVars, capVars, meshVars, lifeVars, bootVars, syncVars, tickVars, monVars, procVars, upVars, expVars>>

\* the "Clear All Points" button
ClearAllPoints ==
  /\ platform = "swift"
  /\ s_points # <<>>
  /\ s_points' = <<>>
  /\ s_retired' = s_retired \cup SwiftIds(s_points)
  /\ UNCHANGED <<s_global, s_videoSize, s_viewSize, s_nextUuid>>
  /\ UNCHANGED <<platform, webVars, warpVars, capVars, meshVars, lifeVars, bootVars, syncVars, tickVars, monVars, procVars, upVars, expVars>>

\* the "Global Strength" slider, bound to warpSettings.globalStrength
GlobalStrengthSlider ==
  /\ platform = "swift"
  /\ \E v \in SwiftStrengthSlider : s_global' = v
  /\ UNCHANGED <<s_points, s_videoSize, s_viewSize, s_nextUuid, s_retired>>
  /\ UNCHANGED <<platform, webVars, warpVars, capVars, meshVars, lifeVars, bootVars, syncVars, tickVars, monVars, procVars, upVars, expVars>>

SwiftStoreNext ==
  \/ ViewAddControlPoint
  \/ ControlPointDragEnded
  \/ RowStrengthChange
  \/ RowRadiusChange
  \/ RowToggleType
  \/ RowToggleLock
  \/ removeControlPoint
  \/ ClearAllPoints
  \/ GlobalStrengthSlider

-----------------------------------------------------------------------------
(* Mesh generation: createMesh (web) and the generateMesh kernel (Metal)    *)

meshResolution == 32             \* VideoProcessor.meshResolution
MESH_RESOLUTION == 32            \* constant of WarpShader.metal

MeshWindow == 3                  \* a thread runs at most this far ahead of the
                                 \* lowest thread that has not run
MeshExtraThreads == 2            \* threads of the grid beyond (R+1)^2

\* 1.0 as a mesh coordinate: x / 32 is exact, as it is in a float
MeshOne == 16 * SCALE

\* x / this.meshResolution, float(x) / float(MESH_RESOLUTION)
MeshCoord(x, R) == (x * MeshOne) \div R

\* new Uint16Array(indices): each number is stored modulo 2^16
ToUint16(n) == n % 65536

\* the loop tests of createMesh: y <= R, x <= R for the vertices and
\* y < R, x < R for the cells (CellLoopInclusive is the test a cell loop
\* running to R inclusive would make)
VertexLoopContinues(i, R) == i <= R
CellLoopInclusive(i, R) == i <= R
CellLoopContinues(i, R) == i < R

\* the six indices createMesh pushes for the cell (x, y)
WebQuad(x, y, R) ==
  LET topLeft == y * (R + 1) + x
      topRight == topLeft + 1
      bottomLeft == (y + 1) * (R + 1) + x
      bottomRight == bottomLeft + 1
  IN <<topLeft, bottomLeft, topRight, topRight, bottomLeft, bottomRight>>

MeshIdle ==
  /\ m_engine = "none"
  /\ g_pc = "idle" /\ g_y = 0 /\ g_x = 0
  /\ g_vertices = <<>> /\ g_texCoords = <<>> /\ g_indices = <<>>
  /\ g_vertexBuffer = <<>> /\ g_indexBuffer = <<>>
  /\ k_base = 0 /\ k_ahead = {}
  /\ k_vertices = <<>> /\ k_indices = <<>>

\* createMesh, one iteration of the vertex loops
CreateMeshVertexStep ==
  /\ m_engine = "web" /\ g_pc = "vertices"
  /\ LET R == meshResolution
         u == MeshCoord(g_x, R)
         v == MeshCoord(g_y, R)
     IN IF ~VertexLoopContinues(g_y, R)
        THEN /\ g_pc' = "cells" /\ g_y' = 0 /\ g_x' = 0
             /\ UNCHANGED <<g_vertices, g_texCoords>>
        ELSE /\ g_vertices' = g_vertices \o <<u, v>>
             /\ g_texCoords' = g_texCoords \o <<u, v>>
             /\ IF VertexLoopContinues(g_x + 1, R)
                THEN g_x' = g_x + 1 /\ g_y' = g_y
                ELSE g_x' = 0 /\ g_y' = g_y + 1
             /\ g_pc' = g_pc
  /\ UNCHANGED <<m_engine, g_indices, g_vertexBuffer, g_indexBuffer,
                 k_base, k_ahead, k_vertices, k_indices>>
  /\ UNCHANGED <<warpVars, capVars, storeVars, lifeVars, bootVars, syncVars, tickVars, monVars, procVars, upVars, expVars>>

\* createMesh, one iteration of the cell loops
CreateMeshCellStep ==
  /\ m_engine = "web" /\ g_pc = "cells"
  /\ LET R == meshResolution
     IN IF ~CellLoopContinues(g_y, R)
        THEN /\ g_pc' = "upload"
             /\ UNCHANGED <<g_y, g_x, g_indices>>
        ELSE /\ g_indices' = g_indices \o WebQuad(g_x, g_y, R)
             /\ IF CellLoopContinues(g_x + 1, R)
                THEN g_x' = g_x + 1 /\ g_y' = g_y
                ELSE g_x' = 0 /\ g_y' = g_y + 1
             /\ g_pc' = g_pc
  /\ UNCHANGED <<m_engine, g_vertices, g_texCoords, g_vertexBuffer,
                 g_indexBuffer, k_base, k_ahead, k_vertices, k_indices>>
  /\ UNCHANGED <<warpVars, capVars, storeVars, lifeVars, bootVars, syncVars, tickVars, monVars, procVars, upVars, expVars>>

\* createMesh, the two bufferData calls
CreateMeshUpload ==
  /\ m_engine = "web" /\ g_pc = "upload"
  /\ g_vertexBuffer' = g_vertices \o g_texCoords
  /\ g_indexBuffer' = [i \in 1..Len(g_indices) |-> ToUint16(g_indices[i])]
  /\ g_pc' = "done"
  /\ UNCHANGED <<m_engine, g_y, g_x, g_vertices, g_texCoords, g_indices,
                 k_base, k_ahead, k_vertices, k_indices>>
  /\ UNCHANGED <<warpVars, capVars, storeVars, lifeVars, bootVars, syncVars, tickVars, monVars, procVars, upVars, expVars>>

\* threads of the generateMesh dispatch
MeshGridThreads == (MESH_RESOLUTION + 1) * (MESH_RESOLUTION + 1) + MeshExtraThreads

\* the slots of vertices one thread writes
KernelVertexWrites(index) ==
  LET R == MESH_RESOLUTION
      x == index % (R + 1)
      y == index \div (R + 1)
      u == MeshCoord(x, R)
      v == MeshCoord(y, R)
  IN IF index >= (R + 1) * (R + 1) THEN <<>>
     ELSE index :> [position |-> <<u, v>>, texCoords |-> <<u, v>>]

\* the index writes of a thread whose first triangle is wound the other way
KernelIndexWritesClockwise(index) ==
  LET R == MESH_RESOLUTION
      x == index % (R + 1)
      y == index \div (R + 1)
      indexBase == (y * R + x) * 6
      topLeft == y * (R + 1) + x
      bottomLeft == (y + 1) * (R + 1) + x
  IN IF index < (R + 1) * (R + 1) /\ x < R /\ y < R
     THEN (indexBase + 0 :> topLeft)
          @@ (indexBase + 1 :> topLeft + 1)
          @@ (indexBase + 2 :> bottomLeft)
          @@ (indexBase + 3 :> topLeft + 1)
          @@ (indexBase + 4 :> bottomLeft)
          @@ (indexBase + 5 :> bottomLeft + 1)
     ELSE <<>>

\* the slots of indices one thread writes (int values stored as uint: all are
\* non-negative and far below 2^31 at this resolution)
KernelIndexWrites(index) ==
  LET R == MESH_RESOLUTION
      x == index % (R + 1)
      y == index \div (R + 1)
      quadIndex == y * R + x
      indexBase == quadIndex * 6
      topLeft == y * (R + 1) + x
      topRight == topLeft + 1
      bottomLeft == (y + 1) * (R + 1) + x
      bottomRight == bottomLeft + 1
  IN IF index >= (R + 1) * (R + 1) THEN <<>>
     ELSE IF x < R /\ y < R
          THEN (indexBase + 0 :> topLeft)
               @@ (indexBase + 1 :> bottomLeft)
               @@ (indexBase + 2 :> topRight)
               @@ (indexBase + 3 :> topRight)
               @@ (indexBase + 4 :> bottomLeft)
               @@ (indexBase + 5 :> bottomRight)
          ELSE <<>>

\* the lowest thread at or above base that has not run
RECURSIVE AdvanceBase(_, _)
AdvanceBase(base, ahead) ==
  IF base \in ahead THEN AdvanceBase(base + 1, ahead) ELSE base

\* generateMesh, one thread of the grid
GenerateMeshThread ==
  /\ m_engine = "metal"
  /\ \E index \in k_base..(k_base + MeshWindow - 1) :
       /\ index < MeshGridThreads
       /\ index \notin k_ahead
       /\ k_vertices' = KernelVertexWrites(index) @@ k_vertices
       /\ k_indices' = KernelIndexWrites(index) @@ k_indices
       /\ k_base' = AdvanceBase(k_base, k_ahead \cup {index})
       /\ k_ahead' = {t \in k_ahead \cup {index} : t >= k_base'}
  /\ UNCHANGED <<m_engine, g_pc, g_y, g_x, g_vertices, g_texCoords, g_indices,
                 g_vertexBuffer, g_indexBuffer>>
  /\ UNCHANGED <<warpVars, capVars, storeVars, lifeVars, bootVars, syncVars, tickVars, monVars, procVars, upVars, expVars>>

MeshNext ==
  \/ CreateMeshVertexStep
  \/ CreateMeshCellStep
  \/ CreateMeshUpload
  \/ GenerateMeshThread

-----------------------------------------------------------------------------
(* Life cycle of the web VideoProcessor                                     *)

Null == "null"
NoVideo == 0

MaxVideos == 3                   \* video elements created in a run

\* the GL objects initializeWebGL creates
GlShaders == {"vertexShader", "fragmentShader"}
GlObjects == GlShaders \cup {"program", "vertexBuffer", "indexBuffer", "texture"}

\* warpSettings set by the constructor
DefaultWebSettings == [strength |-> SCALE, interpolation |-> "smooth",
                       quality |-> "preview"]

\* arguments of updateWarpPoints and updateSettings
LifePointLists == {<<>>, <<CapPointA>>}
LifeSettings == {DefaultWebSettings,
                 [strength |-> 2 * SCALE, interpolation |-> "smooth",
                  quality |-> "final"]}

\* createMesh(): the buffers hold the grid of this.meshResolution, which no
\* setting enters; settings are the warpSettings in effect at the call
NoMesh == [resolution |-> 0, quality |-> "none"]
createMesh(settings) == [resolution |-> meshResolution, quality |-> settings.quality]

\* the canvas before the first drawElements
UntouchedSurface == [drawn |-> FALSE, frame |-> NoVideo, points |-> <<>>,
                     settings |-> DefaultWebSettings]

LifeIdle ==
  /\ l_isInitialized = FALSE
  /\ l_video = NoVideo
  /\ l_shaderProgram = Null /\ l_texture = Null
  /\ l_vertexBuffer = Null /\ l_indexBuffer = Null
  /\ l_controlPoints = <<>>
  /\ l_warpSettings = Null
  /\ l_live = {}
  /\ l_pending = {} /\ l_ready = {}
  /\ l_nextVideo = 1
  /\ l_textureSetup = FALSE
  /\ l_destroyed = FALSE
  /\ l_lastRender = "none"
  /\ l_lastRenderLate = FALSE
  /\ l_usedReleased = FALSE
  /\ l_texFrame = NoVideo
  /\ l_surface = UntouchedSurface
  /\ l_mesh = NoMesh

\* new VideoProcessor(canvas): the constructor and initializeWebGL
LifeInit ==
  /\ l_isInitialized = TRUE
  /\ l_video = NoVideo
  /\ l_shaderProgram = "program" /\ l_texture = "texture"
  /\ l_vertexBuffer = "vertexBuffer" /\ l_indexBuffer = "indexBuffer"
  /\ l_controlPoints = <<>>
  /\ l_warpSettings = DefaultWebSettings
  /\ l_live = GlObjects
  /\ l_pending = {} /\ l_ready = {}
  /\ l_nextVideo = 1
  /\ l_textureSetup = FALSE
  /\ l_destroyed = FALSE
  /\ l_lastRender = "none"
  /\ l_lastRenderLate = FALSE
  /\ l_usedReleased = FALSE
  /\ l_texFrame = NoVideo
  /\ l_surface = UntouchedSurface
  /\ l_mesh = createMesh(DefaultWebSettings)

\* loadVideo(videoUrl), up to the return of the promise
loadVideo ==
  /\ l_nextVideo <= MaxVideos
  /\ l_video' = l_nextVideo
  /\ l_nextVideo' = l_nextVideo + 1
  /\ l_ready' = l_ready \ {l_video}
  /\ l_pending' = l_pending \cup {l_nextVideo}
  /\ UNCHANGED <<l_isInitialized, l_shaderProgram, l_texture, l_vertexBuffer,
                 l_indexBuffer, l_controlPoints, l_warpSettings, l_live,
                 l_textureSetup, l_destroyed, l_lastRender, l_lastRenderLate,
                 l_usedReleased>>
  /\ UNCHANGED <<l_texFrame, l_surface, l_mesh>>
  /\ UNCHANGED <<warpVars, capVars, storeVars, meshVars, bootVars, syncVars, tickVars, monVars, procVars, upVars, expVars>>

\* setupVideoTexture: does it reach the GL calls
SetupReachesGl(video, texture) == ~(video = NoVideo \/ texture = Null)

\* video.onloadeddata of a video element created by loadVideo
onloadeddata ==
  /\ \E v \in l_pending :
       /\ l_pending' = l_pending \ {v}
       /\ l_ready' = IF v = l_video THEN l_ready \cup {v} ELSE l_ready
  /\ l_textureSetup' = (l_textureSetup \/ SetupReachesGl(l_video, l_texture))
  /\ UNCHANGED <<l_isInitialized, l_video, l_shaderProgram, l_texture,
                 l_vertexBuffer, l_indexBuffer, l_controlPoints,
                 l_warpSettings, l_live, l_nextVideo, l_destroyed,
                 l_lastRender, l_lastRenderLate, l_usedReleased>>
  /\ UNCHANGED <<l_texFrame, l_surface, l_mesh>>
  /\ UNCHANGED <<warpVars, capVars, storeVars, meshVars, bootVars, syncVars, tickVars, monVars, procVars, upVars, expVars>>

\* video.onerror of a video element created by loadVideo
onerror ==
  /\ \E v \in l_pending : l_pending' = l_pending \ {v}
  /\ UNCHANGED <<l_isInitialized, l_video, l_shaderProgram, l_texture,
                 l_vertexBuffer, l_indexBuffer, l_controlPoints,
                 l_warpSettings, l_live, l_ready, l_nextVideo, l_textureSetup,
                 l_destroyed, l_lastRender, l_lastRenderLate, l_usedReleased>>
  /\ UNCHANGED <<l_texFrame, l_surface, l_mesh>>
  /\ UNCHANGED <<warpVars, capVars, storeVars, meshVars, bootVars, syncVars, tickVars, monVars, procVars, upVars, expVars>>

updateWarpPoints ==
  /\ \E points \in LifePointLists : l_controlPoints' = points
  /\ UNCHANGED <<l_isInitialized, l_video, l_shaderProgram, l_texture,
                 l_vertexBuffer, l_indexBuffer, l_warpSettings, l_live,
                 l_pending, l_ready, l_nextVideo, l_textureSetup, l_destroyed,
                 l_lastRender, l_lastRenderLate, l_usedReleased>>
  /\ UNCHANGED <<l_texFrame, l_surface, l_mesh>>
  /\ UNCHANGED <<warpVars, capVars, storeVars, meshVars, bootVars, syncVars, tickVars, monVars, procVars, upVars, expVars>>

updateSettings ==
  /\ \E settings \in LifeSettings : l_warpSettings' = settings
  /\ UNCHANGED <<l_isInitialized, l_video, l_shaderProgram, l_texture,
                 l_vertexBuffer, l_indexBuffer, l_controlPoints, l_live,
                 l_pending, l_ready, l_nextVideo, l_textureSetup, l_destroyed,
                 l_lastRender, l_lastRenderLate, l_usedReleased>>
  /\ UNCHANGED <<l_texFrame, l_surface, l_mesh>>
  /\ UNCHANGED <<warpVars, capVars, storeVars, meshVars, bootVars, syncVars, tickVars, monVars, procVars, upVars, expVars>>

\* the early return of render
RenderReturnsVideoOnly(isInitialized, video, shaderProgram) ==
  video = NoVideo
RenderReturns(isInitialized, video, shaderProgram) ==
  ~isInitialized \/ video = NoVideo \/ shaderProgram = Null

\* the handles render passes to GL: bindTexture, useProgram, bindBuffer
RenderHandles == {l_texture, l_shaderProgram, l_vertexBuffer, l_indexBuffer}

\* video.readyState >= video.HAVE_CURRENT_DATA
FrameUploadable(video, ready) == video \in ready

render ==
  /\ IF RenderReturns(l_isInitialized, l_video, l_shaderProgram)
     THEN /\ l_lastRender' = "returned"
          /\ l_usedReleased' = FALSE
          /\ UNCHANGED <<l_texFrame, l_surface>>
     ELSE /\ l_lastRender' = "drew"
          /\ l_usedReleased' = (\E h \in RenderHandles : h \notin l_live)
          /\ l_texFrame' = IF FrameUploadable(l_video, l_ready)
                           THEN l_video ELSE l_texFrame
          /\ l_surface' = [drawn |-> TRUE, frame |-> l_texFrame',
                           points |-> l_controlPoints,
                           settings |-> l_warpSettings]
  /\ l_lastRenderLate' = l_destroyed
  /\ UNCHANGED <<l_isInitialized, l_video, l_shaderProgram, l_texture,
                 l_vertexBuffer, l_indexBuffer, l_controlPoints,
                 l_warpSettings, l_live, l_pending, l_ready, l_nextVideo,
                 l_textureSetup, l_destroyed, l_mesh>>
  /\ UNCHANGED <<warpVars, capVars, storeVars, meshVars, bootVars, syncVars, tickVars, monVars, procVars, upVars, expVars>>

\* the objects destroy passes to gl.deleteTexture / deleteBuffer / deleteProgram
DestroyDeletes ==
  {l_texture, l_vertexBuffer, l_indexBuffer, l_shaderProgram} \ {Null}

destroy ==
  /\ l_ready' = l_ready \ {l_video}
  /\ l_video' = NoVideo
  /\ l_live' = l_live \ DestroyDeletes
  /\ l_texture' = Null
  /\ l_vertexBuffer' = Null
  /\ l_indexBuffer' = Null
  /\ l_shaderProgram' = Null
  /\ l_isInitialized' = FALSE
  /\ l_destroyed' = TRUE
  /\ UNCHANGED <<l_controlPoints, l_warpSettings, l_pending, l_nextVideo,
                 l_textureSetup, l_lastRender, l_lastRenderLate,
                 l_usedReleased>>
  /\ UNCHANGED <<l_texFrame, l_surface, l_mesh>>
  /\ UNCHANGED <<warpVars, capVars, storeVars, meshVars, bootVars, syncVars, tickVars, monVars, procVars, upVars, expVars>>

LifeNext ==
  \/ loadVideo
  \/ onloadeddata
  \/ onerror
  \/ updateWarpPoints
  \/ updateSettings
  \/ render
  \/ destroy

-----------------------------------------------------------------------------
(* Construction of a processor: acquisition failures and what follows      *)

MaxBootFrames == 2               \* frames the Swift compositor composes in a run

\* the acquisitions of the web constructor, in the order it makes them
WebFaults == {"none", "context", "vertexShader", "fragmentShader",
              "createProgram", "link"}
SwiftFaults == {"none", "device", "commandQueue"}

\* the GL objects alive when the web constructor throws at the fault
CreatedBefore(fault) ==
  CASE fault = "context" -> {}
    [] fault = "vertexShader" -> {}
    [] fault = "fragmentShader" -> {"vertexShader"}
    [] fault = "createProgram" -> GlShaders
    [] fault = "link" -> GlShaders \cup {"program"}
    [] OTHER -> GlObjects

BootIdle ==
  /\ b_engine = "none" /\ b_fault = "pending"
  /\ b_held = FALSE /\ b_error = FALSE
  /\ b_device = FALSE /\ b_commandQueue = FALSE
  /\ b_isLoaded = FALSE /\ b_composition = FALSE /\ b_frames = 0

\* new VideoProcessor(canvas): the constructor and initializeWebGL; a failed
\* acquisition throws out of the constructor
WebConstruct ==
  /\ b_engine = "web" /\ b_fault = "pending"
  /\ \E fault \in WebFaults :
       /\ b_fault' = fault
       /\ b_error' = (fault # "none")
       /\ b_held' = (fault = "none")
       /\ l_live' = CreatedBefore(fault)
       /\ l_shaderProgram' = IF fault \in {"none", "link"} THEN "program" ELSE Null
       /\ l_vertexBuffer' = IF fault = "none" THEN "vertexBuffer" ELSE Null
       /\ l_indexBuffer' = IF fault = "none" THEN "indexBuffer" ELSE Null
       /\ l_texture' = IF fault = "none" THEN "texture" ELSE Null
       /\ l_isInitialized' = (fault = "none")
       /\ l_warpSettings' = IF fault = "context" THEN Null ELSE DefaultWebSettings
       /\ l_mesh' = IF fault = "none" THEN createMesh(DefaultWebSettings) ELSE NoMesh
  /\ UNCHANGED <<l_video, l_controlPoints, l_pending, l_ready, l_nextVideo,
                 l_textureSetup, l_destroyed, l_lastRender, l_lastRenderLate,
                 l_usedReleased>>
  /\ UNCHANGED <<b_engine, b_device, b_commandQueue, b_isLoaded, b_composition,
                 b_frames>>
  /\ UNCHANGED <<l_texFrame, l_surface>>
  /\ UNCHANGED <<warpVars, capVars, storeVars, meshVars, syncVars, tickVars, monVars, procVars, upVars, expVars>>

\* the calls the holder of a web processor makes on it
WebUse == b_engine = "web" /\ b_held /\ LifeNext

\* VideoProcessor(): init, setupMetal, setupMetalPipeline; init does not throw
SwiftConstruct ==
  /\ b_engine = "swift" /\ b_fault = "pending"
  /\ \E fault \in SwiftFaults :
       /\ b_fault' = fault
       /\ b_device' = (fault # "device")
       /\ b_commandQueue' = (fault = "none")
  /\ b_held' = TRUE
  /\ UNCHANGED <<b_engine, b_error, b_isLoaded, b_composition, b_frames>>
  /\ UNCHANGED <<warpVars, capVars, storeVars, meshVars, lifeVars, syncVars, tickVars, monVars, procVars, upVars, expVars>>

\* loadVideo(from:) of a file with a video track
SwiftLoadVideo ==
  /\ b_engine = "swift" /\ b_held /\ ~b_isLoaded
  /\ b_isLoaded' = TRUE
  /\ UNCHANGED <<b_engine, b_fault, b_held, b_error, b_device, b_commandQueue,
                 b_composition, b_frames>>
  /\ UNCHANGED <<warpVars, capVars, storeVars, meshVars, lifeVars, syncVars, tickVars, monVars, procVars, upVars, expVars>>

\* addControlPoint(at:) and its updateVideoComposition, with an asset loaded
SwiftCompose ==
  /\ b_engine = "swift" /\ b_held /\ b_isLoaded
  /\ b_composition' = TRUE
  /\ UNCHANGED <<b_engine, b_fault, b_held, b_error, b_device, b_commandQueue,
                 b_isLoaded, b_frames>>
  /\ UNCHANGED <<warpVars, capVars, storeVars, meshVars, lifeVars, syncVars, tickVars, monVars, procVars, upVars, expVars>>

\* WarpVideoCompositor.startRequest for a frame of the composition
SwiftStartRequest ==
  /\ b_engine = "swift" /\ b_composition
  /\ b_frames < MaxBootFrames
  /\ b_frames' = b_frames + 1
  /\ UNCHANGED <<b_engine, b_fault, b_held, b_error, b_device, b_commandQueue,
                 b_isLoaded, b_composition>>
  /\ UNCHANGED <<warpVars, capVars, storeVars, meshVars, lifeVars, syncVars, tickVars, monVars, procVars, upVars, expVars>>

BootNext ==
  \/ WebConstruct
  \/ WebUse
  \/ SwiftConstruct
  \/ SwiftLoadVideo
  \/ SwiftCompose
  \/ SwiftStartRequest

-----------------------------------------------------------------------------
(* The store and the point list of the renderer                            *)

MaxSyncPoints == 1               \* points the store holds in these runs

\* a point as handleCanvasClick / ControlPoint.init creates it (position
\* stands for x and y of the web record), and the values an edit writes
SyncNewPoint(id) == [id |-> id, position |-> <<SCALE \div 4, SCALE \div 4>>,
                     strength |-> SCALE, radius |-> SCALE \div 10]
SyncEdit == [position |-> <<SCALE \div 2, SCALE \div 2>>,
             strength |-> 2 * SCALE, radius |-> SCALE \div 2]
SyncGlobals == {SCALE, 2 * SCALE}

SyncPcIdle == [stage |-> "idle", index |-> 0]

\* what the renderer holds: a list value and the parameters, with the
\* completeness of the store at the moment the value was taken
Snapshot(points, global, complete) ==
  [set |-> TRUE, points |-> points, global |-> global, complete |-> complete]
NoSnapshot == [set |-> FALSE, points |-> <<>>, global |-> SCALE, complete |-> TRUE]

NoTick == [ran |-> FALSE, fresh |-> TRUE, complete |-> TRUE]

\* the point list a tick evaluates: the list value of the instruction /
\* this.controlPoints, not the store
TickPointsShared(held, store, storeComplete) ==
  [points |-> store, complete |-> storeComplete]
TickPoints(held, store, storeComplete) ==
  [points |-> held.points, complete |-> held.complete]

\* one tick with what the renderer holds
TickRecord(held, store, global, storeComplete) ==
  LET in == TickPoints(held, store, storeComplete)
  IN [ran |-> TRUE,
      fresh |-> (in.points = store /\ held.global = global),
      complete |-> in.complete]

SyncIdle ==
  /\ y_engine = "none"
  /\ y_store = <<>> /\ y_global = SCALE /\ y_storeComplete = TRUE
  /\ y_pc = SyncPcIdle /\ y_effect = FALSE
  /\ y_held = NoSnapshot /\ y_tick = NoTick

\* web: a handler of VideoEditor / ControlPanel replaces the App state
SyncWebEdit ==
  /\ y_engine = "web"
  /\ \/ /\ Len(y_store) < MaxSyncPoints
        /\ y_store' = Append(y_store, SyncNewPoint(Len(y_store) + 1))
        /\ y_global' = y_global
     \/ \E i \in 1..Len(y_store) :
          /\ \/ y_store' = [y_store EXCEPT ![i].position = SyncEdit.position]
             \/ y_store' = [y_store EXCEPT ![i].strength = SyncEdit.strength]
             \/ y_store' = [y_store EXCEPT ![i].radius = SyncEdit.radius]
             \/ y_store' = SubSeq(y_store, 1, i - 1)
                             \o SubSeq(y_store, i + 1, Len(y_store))
          /\ y_global' = y_global
     \/ /\ y_global' \in SyncGlobals
        /\ y_store' = y_store
  /\ y_effect' = TRUE
  /\ UNCHANGED <<y_engine, y_storeComplete, y_pc, y_held, y_tick>>
  /\ UNCHANGED <<warpVars, capVars, storeVars, meshVars, lifeVars, bootVars, tickVars, monVars, procVars, upVars, expVars>>

\* web: the warp effect: updateWarpPoints(controlPoints), updateSettings(..)
SyncWebEffect ==
  /\ y_engine = "web" /\ y_effect
  /\ y_held' = Snapshot(y_store, y_global, y_storeComplete)
  /\ y_effect' = FALSE
  /\ UNCHANGED <<y_engine, y_store, y_global, y_storeComplete, y_pc, y_tick>>
  /\ UNCHANGED <<warpVars, capVars, storeVars, meshVars, lifeVars, bootVars, tickVars, monVars, procVars, upVars, expVars>>

\* web: handleTimeUpdate calls render; swift: startRequest of the compositor
SyncTick ==
  /\ y_engine \in {"web", "swift"}
  /\ y_held.set
  /\ y_tick' = TickRecord(y_held, y_store, y_global, y_storeComplete)
  /\ UNCHANGED <<y_engine, y_store, y_global, y_storeComplete, y_pc, y_effect,
                 y_held>>
  /\ UNCHANGED <<warpVars, capVars, storeVars, meshVars, lifeVars, bootVars, tickVars, monVars, procVars, upVars, expVars>>

\* swift: updateVideoComposition: a new instruction with a copy of the store,
\* unless the store is empty (then the player item keeps what it has)
ComposedSnapshot(held, store, global, complete) ==
  IF store = <<>> THEN held ELSE Snapshot(store, global, complete)

\* swift: updateControlPoint(id, position:, strength:, radius:), one write of
\* the main thread at a time
SyncUpdateControlPoint ==
  /\ y_engine = "swift"
  /\ \/ /\ y_pc.stage = "idle"
        /\ \E i \in 1..Len(y_store) :
             /\ y_store' = [y_store EXCEPT ![i].position = SyncEdit.position]
             /\ y_pc' = [stage |-> "strength", index |-> i]
        /\ y_storeComplete' = FALSE
        /\ y_held' = y_held
     \/ /\ y_pc.stage = "strength"
        /\ y_store' = [y_store EXCEPT ![y_pc.index].strength = SyncEdit.strength]
        /\ y_pc' = [y_pc EXCEPT !.stage = "radius"]
        /\ UNCHANGED <<y_storeComplete, y_held>>
     \/ /\ y_pc.stage = "radius"
        /\ y_store' = [y_store EXCEPT ![y_pc.index].radius = SyncEdit.radius]
        /\ y_pc' = [y_pc EXCEPT !.stage = "compose"]
        /\ y_storeComplete' = TRUE
        /\ y_held' = y_held
     \/ /\ y_pc.stage = "compose"
        /\ y_held' = ComposedSnapshot(y_held, y_store, y_global, y_storeComplete)
        /\ y_pc' = SyncPcIdle
        /\ UNCHANGED <<y_store, y_storeComplete>>
  /\ UNCHANGED <<y_engine, y_global, y_effect, y_tick>>
  /\ UNCHANGED <<warpVars, capVars, storeVars, meshVars, lifeVars, bootVars, tickVars, monVars, procVars, upVars, expVars>>

\* swift: removeControlPoint(id) and its updateVideoComposition
SyncRemoveControlPoint ==
  /\ y_engine = "swift" /\ y_pc.stage = "idle"
  /\ \E i \in 1..Len(y_store) :
       y_store' = SubSeq(y_store, 1, i - 1) \o SubSeq(y_store, i + 1, Len(y_store))
  /\ y_held' = ComposedSnapshot(y_held, y_store', y_global, y_storeComplete)
  /\ UNCHANGED <<y_engine, y_global, y_storeComplete, y_pc, y_effect, y_tick>>
  /\ UNCHANGED <<warpVars, capVars, storeVars, meshVars, lifeVars, bootVars, tickVars, monVars, procVars, upVars, expVars>>

\* swift: the writes of VideoEditorView into videoProcessor: addControlPoint,
\* the onUpdate of a row, Clear All Points, the global strength slider
SyncViewWrite ==
  /\ y_engine = "swift" /\ y_pc.stage = "idle"
  /\ \/ /\ Len(y_store) < MaxSyncPoints
        /\ y_store' = Append(y_store, SyncNewPoint(Len(y_store) + 1))
        /\ y_global' = y_global
     \/ /\ \E i \in 1..Len(y_store) :
             y_store' = [y_store EXCEPT ![i].strength = SyncEdit.strength]
        /\ y_global' = y_global
     \/ /\ y_store # <<>>
        /\ y_store' = <<>>
        /\ y_global' = y_global
     \/ /\ y_global' \in SyncGlobals
        /\ y_store' = y_store
  /\ UNCHANGED <<y_engine, y_storeComplete, y_pc, y_effect, y_held, y_tick>>
  /\ UNCHANGED <<warpVars, capVars, storeVars, meshVars, lifeVars, bootVars, tickVars, monVars, procVars, upVars, expVars>>

SyncNext ==
  \/ SyncWebEdit
  \/ SyncWebEffect
  \/ SyncTick
  \/ SyncUpdateControlPoint
  \/ SyncRemoveControlPoint
  \/ SyncViewWrite

-----------------------------------------------------------------------------
(* Tick requests and executions of render in the browser                   *)

MaxQueued == 3                   \* tasks waiting in the event loop
MaxTicks == 3                    \* render calls counted in a run

\* does a call give the thread back before it returns: render and destroy
\* are synchronous functions without await
RenderYieldsAtUpload(pc) == pc = "upload"
RenderYields(pc) == FALSE

\* the position after pc in render (guard, texture upload, uniforms and
\* draw) or in destroy; "return" ends the call
NextPosition(pc, destroyed) ==
  CASE pc = "guard" -> IF destroyed THEN "return" ELSE "upload"
    [] pc = "upload" -> "draw"
    [] pc = "draw" -> "return"
    [] OTHER -> "return"

TickIdle ==
  /\ t_queue = <<>> /\ t_active = <<>>
  /\ t_destroyed = FALSE /\ t_ticks = 0

\* the video element queues a timeupdate event, or React queues the cleanup
\* of the processor effect
TickPost ==
  /\ Len(t_queue) < MaxQueued
  /\ \E task \in {"timeupdate", "cleanup"} : t_queue' = Append(t_queue, task)
  /\ UNCHANGED <<t_active, t_destroyed, t_ticks>>
  /\ UNCHANGED <<warpVars, capVars, storeVars, meshVars, lifeVars, bootVars,
                 syncVars, monVars, procVars, upVars, expVars>>

\* the event loop runs the next task when no call holds the thread:
\* handleTimeUpdate calls render, the cleanup calls destroy
TickDispatch ==
  /\ t_queue # <<>>
  /\ \A i \in 1..Len(t_active) : RenderYields(t_active[i])
  /\ t_active' = Append(t_active,
                        IF Head(t_queue) = "timeupdate" THEN "guard" ELSE "destroy")
  /\ t_queue' = Tail(t_queue)
  /\ UNCHANGED <<t_destroyed, t_ticks>>
  /\ UNCHANGED <<warpVars, capVars, storeVars, meshVars, lifeVars, bootVars,
                 syncVars, monVars, procVars, upVars, expVars>>

\* a call that has begun runs to its next position
TickStep ==
  /\ \E i \in 1..Len(t_active) :
       LET pc == t_active[i]
           next == NextPosition(pc, t_destroyed)
       IN /\ t_active' = IF next = "return"
                         THEN SubSeq(t_active, 1, i - 1)
                                \o SubSeq(t_active, i + 1, Len(t_active))
                         ELSE [t_active EXCEPT ![i] = next]
          /\ t_destroyed' = (t_destroyed \/ pc = "destroy")
          /\ t_ticks' = IF next = "return" /\ pc # "destroy" /\ t_ticks < MaxTicks
                        THEN t_ticks + 1 ELSE t_ticks
  /\ UNCHANGED t_queue
  /\ UNCHANGED <<warpVars, capVars, storeVars, meshVars, lifeVars, bootVars,
                 syncVars, monVars, procVars, upVars, expVars>>

TickNext == TickPost \/ TickDispatch \/ TickStep

-----------------------------------------------------------------------------
(* PerformanceMonitor: the self-rescheduling updateMetrics loop            *)

MaxMonitorCalls == 4             \* startMonitoring / stopMonitoring calls of a run
MaxMonitorFrames == 6            \* animation frames of a run

MonIdle ==
  /\ p_isMonitoring = FALSE /\ p_pending = 0 /\ p_calls = 0 /\ p_frames = 0

\* updateMetrics(): the callbacks it leaves with requestAnimationFrame, given
\* the callbacks pending when it starts
updateMetrics(isMonitoring, pending) ==
  IF isMonitoring THEN pending + 1 ELSE pending

\* new PerformanceMonitor(): the constructor calls startMonitoring
MonInit ==
  /\ p_isMonitoring = TRUE
  /\ p_pending = updateMetrics(TRUE, 0)
  /\ p_calls = 0 /\ p_frames = 0

startMonitoring ==
  /\ p_calls < MaxMonitorCalls
  /\ p_calls' = p_calls + 1
  /\ IF p_isMonitoring
     THEN UNCHANGED <<p_isMonitoring, p_pending>>
     ELSE /\ p_isMonitoring' = TRUE
          /\ p_pending' = updateMetrics(TRUE, p_pending)
  /\ UNCHANGED p_frames
  /\ UNCHANGED <<warpVars, capVars, storeVars, meshVars, lifeVars, bootVars, syncVars, tickVars, procVars, upVars, expVars>>

stopMonitoring ==
  /\ p_calls < MaxMonitorCalls
  /\ p_calls' = p_calls + 1
  /\ p_isMonitoring' = FALSE
  /\ UNCHANGED <<p_pending, p_frames>>
  /\ UNCHANGED <<warpVars, capVars, storeVars, meshVars, lifeVars, bootVars, syncVars, tickVars, procVars, upVars, expVars>>

\* the browser runs one pending callback: () => this.updateMetrics()
AnimationFrame ==
  /\ p_pending > 0
  /\ p_frames < MaxMonitorFrames
  /\ p_frames' = p_frames + 1
  /\ p_pending' = updateMetrics(p_isMonitoring, p_pending - 1)
  /\ UNCHANGED <<p_isMonitoring, p_calls>>
  /\ UNCHANGED <<warpVars, capVars, storeVars, meshVars, lifeVars, bootVars, syncVars, tickVars, procVars, upVars, expVars>>

MonNext == startMonitoring \/ stopMonitoring \/ AnimationFrame

-----------------------------------------------------------------------------
(* The Swift VideoProcessor: loading, reset and export, and ContentView    *)

MaxAssets == 3                   \* assets created in a run
MaxProcPoints == 2               \* control points added in the editor

NoAsset == NoVideo               \* nil

\* the steps of loadAsset that can throw; none: the load succeeds
LoadFaults == {"none", "duration", "tracks", "noVideoTrack", "naturalSize",
               "nominalFrameRate"}

\* the results loadTransferable hands to its completion handler
TransferResults == {"file", "noFile", "failure"}

NoCall == [call |-> "none", thrown |-> "none"]

ProcIdle ==
  /\ v_asset = NoAsset /\ v_player = NoAsset /\ v_playerItem = NoAsset
  /\ v_videoMetadata = NoAsset /\ v_videoComposition = NoAsset
  /\ v_isLoaded = FALSE /\ v_isProcessing = FALSE /\ v_errorMessage = FALSE
  /\ v_controlPoints = 0 /\ v_nextAsset = 1
  /\ v_result = NoCall
  /\ n_isLoading = FALSE /\ n_errorMessage = FALSE
  /\ n_showingVideoEditor = FALSE /\ n_stage = "idle"

\* the guard of exportVideo: guard let asset = asset else { throw .noVideoLoaded }
ExportGuard(asset) == asset # NoAsset

\* ContentView.loadVideo(from:), up to the start of its Task; the upload area
\* is on screen only while neither loading nor editing
ViewLoadVideo ==
  /\ ~n_isLoading /\ ~n_showingVideoEditor /\ n_stage = "idle"
  /\ v_nextAsset <= MaxAssets
  /\ n_isLoading' = TRUE
  /\ n_errorMessage' = FALSE
  /\ n_stage' = "task"
  /\ UNCHANGED <<v_asset, v_player, v_playerItem, v_videoMetadata, v_isLoaded,
                 v_isProcessing, v_errorMessage, v_videoComposition,
                 v_controlPoints, v_nextAsset, v_result, n_showingVideoEditor>>
  /\ UNCHANGED <<warpVars, capVars, storeVars, meshVars, lifeVars, bootVars, syncVars, tickVars, monVars, upVars, expVars>>

\* ContentView.loadVideoFromPhotos(item:), up to the call of loadTransferable
ViewLoadVideoFromPhotos ==
  /\ ~n_isLoading /\ ~n_showingVideoEditor /\ n_stage = "idle"
  /\ v_nextAsset <= MaxAssets
  /\ n_isLoading' = TRUE
  /\ n_errorMessage' = FALSE
  /\ n_stage' = "transfer"
  /\ UNCHANGED <<v_asset, v_player, v_playerItem, v_videoMetadata, v_isLoaded,
                 v_isProcessing, v_errorMessage, v_videoComposition,
                 v_controlPoints, v_nextAsset, v_result, n_showingVideoEditor>>
  /\ UNCHANGED <<warpVars, capVars, storeVars, meshVars, lifeVars, bootVars, syncVars, tickVars, monVars, upVars, expVars>>

\* the completion handler of loadTransferable, on the main queue
TransferCompletes ==
  /\ n_stage = "transfer"
  /\ \E result \in TransferResults :
       CASE result = "file" ->
              /\ n_stage' = "task"
              /\ UNCHANGED <<n_isLoading, n_errorMessage>>
         [] result = "noFile" ->
              /\ n_stage' = "idle"
              /\ UNCHANGED <<n_isLoading, n_errorMessage>>
         [] OTHER ->
              /\ n_stage' = "idle"
              /\ n_isLoading' = FALSE
              /\ n_errorMessage' = TRUE
  /\ UNCHANGED <<v_asset, v_player, v_playerItem, v_videoMetadata, v_isLoaded,
                 v_isProcessing, v_errorMessage, v_videoComposition,
                 v_controlPoints, v_nextAsset, v_result, n_showingVideoEditor>>
  /\ UNCHANGED <<warpVars, capVars, storeVars, meshVars, lifeVars, bootVars, syncVars, tickVars, monVars, upVars, expVars>>

\* the Task of a load attempt: VideoProcessor.loadVideo(from:) with loadAsset,
\* then the MainActor block of ContentView for its outcome
LoadVideoTask ==
  /\ n_stage = "task"
  /\ \E fault \in LoadFaults :
       /\ v_asset' = v_nextAsset
       /\ v_result' = [call |-> "loadVideo", thrown |-> fault]
       /\ IF fault = "none"
          THEN /\ v_playerItem' = v_nextAsset
               /\ v_player' = v_nextAsset
               /\ v_videoMetadata' = v_nextAsset
               /\ v_isLoaded' = TRUE
               /\ v_errorMessage' = FALSE
               /\ n_showingVideoEditor' = TRUE
               /\ n_errorMessage' = n_errorMessage
          ELSE /\ v_errorMessage' = TRUE
               /\ n_errorMessage' = TRUE
               /\ UNCHANGED <<v_playerItem, v_player, v_videoMetadata,
                              v_isLoaded, n_showingVideoEditor>>
  /\ v_isProcessing' = FALSE
  /\ v_nextAsset' = v_nextAsset + 1
  /\ n_isLoading' = FALSE
  /\ n_stage' = "idle"
  /\ UNCHANGED <<v_videoComposition, v_controlPoints>>
  /\ UNCHANGED <<warpVars, capVars, storeVars, meshVars, lifeVars, bootVars, syncVars, tickVars, monVars, upVars, expVars>>

\* VideoProcessor.addControlPoint(at:) with updateVideoComposition
ProcAddControlPoint ==
  /\ n_showingVideoEditor
  /\ v_controlPoints < MaxProcPoints
  /\ v_controlPoints' = v_controlPoints + 1
  /\ v_videoComposition' = v_asset
  /\ v_result' = [call |-> "addControlPoint", thrown |-> "none"]
  /\ UNCHANGED <<v_asset, v_player, v_playerItem, v_videoMetadata, v_isLoaded,
                 v_isProcessing, v_errorMessage, v_nextAsset, n_isLoading,
                 n_errorMessage, n_showingVideoEditor, n_stage>>
  /\ UNCHANGED <<warpVars, capVars, storeVars, meshVars, lifeVars, bootVars, syncVars, tickVars, monVars, upVars, expVars>>

\* the onClose closure of ContentView: showingVideoEditor = false and
\* VideoProcessor.reset()
EditorClose ==
  /\ n_showingVideoEditor
  /\ n_showingVideoEditor' = FALSE
  /\ v_player' = NoAsset
  /\ v_playerItem' = NoAsset
  /\ v_controlPoints' = 0
  /\ v_isLoaded' = FALSE
  /\ v_videoMetadata' = NoAsset
  /\ v_errorMessage' = FALSE
  /\ v_result' = [call |-> "reset", thrown |-> "none"]
  /\ UNCHANGED <<v_asset, v_isProcessing, v_videoComposition, v_nextAsset,
                 n_isLoading, n_errorMessage, n_stage>>
  /\ UNCHANGED <<warpVars, capVars, storeVars, meshVars, lifeVars, bootVars, syncVars, tickVars, monVars, upVars, expVars>>

\* VideoProcessor.exportVideo() with performVideoExport, to its return or throw
ProcExportVideo ==
  /\ IF ~ExportGuard(v_asset)
     THEN /\ v_result' = [call |-> "exportVideo", thrown |-> "noVideoLoaded"]
          /\ UNCHANGED v_isProcessing
     ELSE /\ \E thrown \in {"none", "exportFailed"} :
               v_result' = [call |-> "exportVideo", thrown |-> thrown]
          /\ v_isProcessing' = FALSE
  /\ UNCHANGED <<v_asset, v_player, v_playerItem, v_videoMetadata, v_isLoaded,
                 v_errorMessage, v_videoComposition, v_controlPoints,
                 v_nextAsset, n_isLoading, n_errorMessage,
                 n_showingVideoEditor, n_stage>>
  /\ UNCHANGED <<warpVars, capVars, storeVars, meshVars, lifeVars, bootVars, syncVars, tickVars, monVars, upVars, expVars>>

ProcNext ==
  \/ ViewLoadVideo
  \/ ViewLoadVideoFromPhotos
  \/ TransferCompletes
  \/ LoadVideoTask
  \/ ProcAddControlPoint
  \/ EditorClose
  \/ ProcExportVideo

-----------------------------------------------------------------------------
(* VideoUploader: validation and the upload callback                       *)

MaxUploads == 3                  \* files selected in a run

SUPPORTED_VIDEO_FORMATS == {"video/mp4", "video/quicktime", "video/webm",
                            "video/avi", "video/mov", "video/mkv"}
MAX_FILE_SIZE == 500 * 1024 * 1024

\* the files a user selects: at and above the size limit, a listed and an
\* unlisted MIME type
UploadFiles == [size : {MAX_FILE_SIZE, MAX_FILE_SIZE + 1},
                type : {"video/mp4", "video/x-matroska"}]

\* validateFile(file): the error message, or Null
ValidateFileSizeOnly(file) ==
  IF file.size > MAX_FILE_SIZE THEN "size" ELSE Null
validateFile(file) ==
  IF file.size > MAX_FILE_SIZE THEN "size"
  ELSE IF file.type \notin SUPPORTED_VIDEO_FORMATS THEN "format"
  ELSE Null

\* the state a run leaves when its finally block has run
Finished(run, outcome, error) ==
  [id |-> run.id, file |-> run.file, outcome |-> outcome,
   isProcessing |-> FALSE, error |-> error]

UploadIdle ==
  /\ u_waiting = {} /\ u_isProcessing = FALSE /\ u_error = FALSE
  /\ u_uploaded = {} /\ u_finished = {} /\ u_nextRun = 1

\* handleFileSelect(file) up to its return or its await
handleFileSelect ==
  /\ u_nextRun <= MaxUploads
  /\ \E file \in UploadFiles :
       LET run == [id |-> u_nextRun, file |-> file]
       IN IF validateFile(file) # Null
          THEN /\ u_error' = TRUE
               /\ u_isProcessing' = FALSE
               /\ u_finished' = u_finished \cup {Finished(run, "rejected", TRUE)}
               /\ UNCHANGED u_waiting
          ELSE /\ u_error' = FALSE
               /\ u_isProcessing' = TRUE
               /\ u_waiting' = u_waiting \cup {run}
               /\ UNCHANGED u_finished
  /\ u_nextRun' = u_nextRun + 1
  /\ UNCHANGED u_uploaded
  /\ UNCHANGED <<warpVars, capVars, storeVars, meshVars, lifeVars, bootVars, syncVars, tickVars, monVars, procVars, expVars>>

\* video.onloadedmetadata: the promise resolves and handleFileSelect goes on
\* to onVideoUpload and its finally block
onloadedmetadata ==
  /\ \E run \in u_waiting :
       /\ u_waiting' = u_waiting \ {run}
       /\ u_uploaded' = u_uploaded \cup {run}
       /\ u_finished' = u_finished \cup {Finished(run, "uploaded", u_error)}
  /\ u_isProcessing' = FALSE
  /\ UNCHANGED <<u_error, u_nextRun>>
  /\ UNCHANGED <<warpVars, capVars, storeVars, meshVars, lifeVars, bootVars, syncVars, tickVars, monVars, procVars, expVars>>

\* video.onerror: the promise rejects and handleFileSelect goes on to its
\* catch and finally blocks
onvideoerror ==
  /\ \E run \in u_waiting :
       /\ u_waiting' = u_waiting \ {run}
       /\ u_finished' = u_finished \cup {Finished(run, "failed", TRUE)}
  /\ u_error' = TRUE
  /\ u_isProcessing' = FALSE
  /\ UNCHANGED <<u_uploaded, u_nextRun>>
  /\ UNCHANGED <<warpVars, capVars, storeVars, meshVars, lifeVars, bootVars, syncVars, tickVars, monVars, procVars, expVars>>

UploadNext == handleFileSelect \/ onloadedmetadata \/ onvideoerror

-----------------------------------------------------------------------------
(* Export: ExportView of the Swift app, handleExport of the web app        *)

MaxSheets == 3                   \* presentations of the export sheet in a run
MaxExportPoints == 1             \* control points of the web store
MaxWebExports == 2               \* handleExport calls of a run

ExportIdle ==
  /\ x_sheet = NoId /\ x_isExporting = FALSE /\ x_tasks = {} /\ x_nextView = 1
  /\ x_exportError = FALSE /\ x_ended = {}
  /\ x_webIsExporting = FALSE /\ x_webPoints = 0 /\ x_webExports = 0

\* the export button of VideoEditorView: showingExportSheet = true presents a
\* new ExportView, whose @State isExporting starts false
OpenExportSheet ==
  /\ x_sheet = NoId
  /\ x_nextView <= MaxSheets
  /\ x_sheet' = x_nextView
  /\ x_nextView' = x_nextView + 1
  /\ x_isExporting' = FALSE
  /\ x_exportError' = FALSE
  /\ UNCHANGED <<x_tasks, x_ended, x_webIsExporting, x_webPoints,
                 x_webExports>>
  /\ UNCHANGED <<warpVars, capVars, storeVars, meshVars, lifeVars, bootVars, syncVars, tickVars, monVars, procVars, upVars>>

\* the Done button of ExportView: dismiss()
DismissExportSheet ==
  /\ x_sheet # NoId
  /\ x_sheet' = NoId
  /\ x_isExporting' = FALSE
  /\ x_exportError' = FALSE
  /\ UNCHANGED <<x_tasks, x_ended, x_nextView, x_webIsExporting, x_webPoints,
                 x_webExports>>
  /\ UNCHANGED <<warpVars, capVars, storeVars, meshVars, lifeVars, bootVars, syncVars, tickVars, monVars, procVars, upVars>>

\* ExportView.exportVideo(), from the button (.disabled(isExporting)) to the
\* start of its Task
exportVideo ==
  /\ x_sheet # NoId
  /\ ~x_isExporting
  /\ x_isExporting' = TRUE
  /\ x_exportError' = FALSE
  /\ x_tasks' = x_tasks \cup {x_sheet}
  /\ UNCHANGED <<x_sheet, x_ended, x_nextView, x_webIsExporting, x_webPoints,
                 x_webExports>>
  /\ UNCHANGED <<warpVars, capVars, storeVars, meshVars, lifeVars, bootVars, syncVars, tickVars, monVars, procVars, upVars>>

\* the Task of exportVideo: videoProcessor.exportVideo() returns or throws and
\* the MainActor block writes isExporting = false in the view that started it
ExportTaskEnds ==
  /\ \E view \in x_tasks, thrown \in BOOLEAN :
       /\ x_tasks' = x_tasks \ {view}
       /\ x_ended' = x_ended \cup {view}
       /\ x_isExporting' = IF view = x_sheet THEN FALSE ELSE x_isExporting
       /\ x_exportError' = IF view = x_sheet /\ thrown THEN TRUE
                           ELSE x_exportError
  /\ UNCHANGED <<x_sheet, x_nextView, x_webIsExporting, x_webPoints,
                 x_webExports>>
  /\ UNCHANGED <<warpVars, capVars, storeVars, meshVars, lifeVars, bootVars, syncVars, tickVars, monVars, procVars, upVars>>

\* handleControlPointsChange(points)
WebPointsChange ==
  /\ \E n \in 0..MaxExportPoints : x_webPoints' = n
  /\ x_webPoints' # x_webPoints
  /\ UNCHANGED <<x_sheet, x_isExporting, x_tasks, x_exportError, x_ended,
                 x_nextView, x_webIsExporting, x_webExports>>
  /\ UNCHANGED <<warpVars, capVars, storeVars, meshVars, lifeVars, bootVars, syncVars, tickVars, monVars, procVars, upVars>>

\* the export button of ExportPanel (disabled when isExporting or without
\* points) and handleExport, which has no await: setIsExporting(true), the
\* try block, setIsExporting(false)
handleExport ==
  /\ ~x_webIsExporting /\ x_webPoints # 0
  /\ x_webExports < MaxWebExports
  /\ x_webExports' = x_webExports + 1
  /\ x_webIsExporting' = FALSE
  /\ UNCHANGED <<x_sheet, x_isExporting, x_tasks, x_exportError, x_ended,
                 x_nextView, x_webPoints>>
  /\ UNCHANGED <<warpVars, capVars, storeVars, meshVars, lifeVars, bootVars, syncVars, tickVars, monVars, procVars, upVars>>

ExportNext ==
  \/ OpenExportSheet
  \/ DismissExportSheet
  \/ exportVideo
  \/ ExportTaskEnds
  \/ WebPointsChange
  \/ handleExport

StoreIdle == platform = "none" /\ WebIdle /\ SwiftIdle

InitWarp == WarpInit /\ CapIdle /\ StoreIdle /\ MeshIdle /\ LifeIdle /\ BootIdle /\ SyncIdle /\ TickIdle /\ MonIdle /\ ProcIdle /\ UploadIdle /\ ExportIdle

SpecWarp == InitWarp /\ [][WarpNext]_vars

InitCap == CapInit /\ WarpIdle /\ StoreIdle /\ MeshIdle /\ LifeIdle /\ BootIdle /\ SyncIdle /\ TickIdle /\ MonIdle /\ ProcIdle /\ UploadIdle /\ ExportIdle

SpecCap == InitCap /\ [][CapNext]_vars

InitStore ==
  /\ platform \in {"web", "swift"}
  /\ WebIdle
  /\ IF platform = "swift" THEN SwiftInit ELSE SwiftIdle
  /\ WarpIdle
  /\ CapIdle
  /\ MeshIdle
  /\ LifeIdle
  /\ BootIdle
  /\ SyncIdle
  /\ TickIdle
  /\ MonIdle
  /\ ProcIdle
  /\ UploadIdle
  /\ ExportIdle

StoreNext == WebStoreNext \/ SwiftStoreNext

SpecStore == InitStore /\ [][StoreNext]_vars

\* createMesh as initializeWebGL calls it, or a dispatch of generateMesh
InitMesh ==
  /\ m_engine \in {"web", "metal"}
  /\ g_pc = (IF m_engine = "web" THEN "vertices" ELSE "idle")
  /\ g_y = 0 /\ g_x = 0
  /\ g_vertices = <<>> /\ g_texCoords = <<>> /\ g_indices = <<>>
  /\ g_vertexBuffer = <<>> /\ g_indexBuffer = <<>>
  /\ k_base = 0 /\ k_ahead = {}
  /\ k_vertices = <<>> /\ k_indices = <<>>
  /\ WarpIdle /\ CapIdle /\ StoreIdle /\ LifeIdle
  /\ BootIdle
  /\ SyncIdle
  /\ TickIdle
  /\ MonIdle
  /\ ProcIdle
  /\ UploadIdle
  /\ ExportIdle

SpecMesh == InitMesh /\ [][MeshNext]_vars

InitLife == LifeInit /\ WarpIdle /\ CapIdle /\ StoreIdle /\ MeshIdle /\ BootIdle /\ SyncIdle /\ TickIdle /\ MonIdle /\ ProcIdle /\ UploadIdle /\ ExportIdle

SpecLife == InitLife /\ [][LifeNext]_vars

\* before the initializer runs
InitBoot ==
  /\ b_engine \in {"web", "swift"} /\ b_fault = "pending"
  /\ b_held = FALSE /\ b_error = FALSE
  /\ b_device = FALSE /\ b_commandQueue = FALSE
  /\ b_isLoaded = FALSE /\ b_composition = FALSE /\ b_frames = 0
  /\ WarpIdle /\ CapIdle /\ StoreIdle /\ MeshIdle /\ LifeIdle
  /\ SyncIdle
  /\ TickIdle
  /\ MonIdle
  /\ ProcIdle
  /\ UploadIdle
  /\ ExportIdle

SpecBoot == InitBoot /\ [][BootNext]_vars

\* web: a new processor holds [] and the constructor's settings; swift: no
\* composition yet
InitSync ==
  /\ y_engine \in {"web", "swift"}
  /\ y_store = <<>> /\ y_global = SCALE /\ y_storeComplete = TRUE
  /\ y_pc = SyncPcIdle /\ y_effect = FALSE
  /\ y_held = (IF y_engine = "web" THEN Snapshot(<<>>, SCALE, TRUE) ELSE NoSnapshot)
  /\ y_tick = NoTick
  /\ WarpIdle /\ CapIdle /\ StoreIdle /\ MeshIdle /\ LifeIdle /\ BootIdle
  /\ TickIdle
  /\ MonIdle
  /\ ProcIdle
  /\ UploadIdle
  /\ ExportIdle

SpecSync == InitSync /\ [][SyncNext]_vars

InitTick ==
  /\ t_queue = <<>> /\ t_active = <<>>
  /\ t_destroyed = FALSE /\ t_ticks = 0
  /\ WarpIdle /\ CapIdle /\ StoreIdle /\ MeshIdle /\ LifeIdle /\ BootIdle
  /\ SyncIdle
  /\ MonIdle
  /\ ProcIdle
  /\ UploadIdle
  /\ ExportIdle

SpecTick == InitTick /\ [][TickNext]_vars

InitMon ==
  /\ MonInit
  /\ WarpIdle /\ CapIdle /\ StoreIdle /\ MeshIdle /\ LifeIdle /\ BootIdle
  /\ SyncIdle /\ TickIdle
  /\ ProcIdle
  /\ UploadIdle
  /\ ExportIdle

SpecMon == InitMon /\ [][MonNext]_vars

InitProc ==
  /\ ProcIdle
  /\ WarpIdle /\ CapIdle /\ StoreIdle /\ MeshIdle /\ LifeIdle /\ BootIdle
  /\ SyncIdle /\ TickIdle /\ MonIdle
  /\ UploadIdle
  /\ ExportIdle

SpecProc == InitProc /\ [][ProcNext]_vars

\* the main queue runs the completion handler and the Task of an attempt
SpecProcFair ==
  SpecProc /\ WF_vars(TransferCompletes) /\ WF_vars(LoadVideoTask)

InitUpload ==
  /\ UploadIdle
  /\ WarpIdle /\ CapIdle /\ StoreIdle /\ MeshIdle /\ LifeIdle /\ BootIdle
  /\ SyncIdle /\ TickIdle /\ MonIdle /\ ProcIdle
  /\ ExportIdle

SpecUpload == InitUpload /\ [][UploadNext]_vars

InitExport ==
  /\ ExportIdle
  /\ WarpIdle /\ CapIdle /\ StoreIdle /\ MeshIdle /\ LifeIdle /\ BootIdle
  /\ SyncIdle /\ TickIdle /\ MonIdle /\ ProcIdle /\ UploadIdle

SpecExport == InitExport /\ [][ExportNext]_vars

-----------------------------------------------------------------------------
(* Properties of the vertex-warp function (checked under SpecWarp)         *)

InUnitSquare(v) == v[1] >= 0 /\ v[1] <= SCALE /\ v[2] >= 0 /\ v[2] <= SCALE

\* the squared distance between the vertex and the first buffered point
SqDistToFirst ==
  LET dx == w_position[1] - w_points[1].position[1]
      dy == w_position[2] - w_points[1].position[2]
  IN dx * dx + dy * dy

\* C2: with numControlPoints = 0 the vertex-warp function returns the vertex
\* unchanged, in the WebGL shader and in the Metal shader, whatever the
\* parameters and whatever the buffer holds.
C2_EmptyListIsIdentity ==
  w_num = 0 =>
    /\ (w_web # NoResult => w_web = w_position)
    /\ (w_metal # NoResult => w_metal = w_position)

\* C2 witness: both shaders ran with numControlPoints = 0 on a vertex that
\* lies inside the radius of a point left in the buffer.
C2_Witness ==
  /\ w_num = 0
  /\ w_web # NoResult
  /\ w_metal # NoResult
  /\ w_points[1].radius > 0
  /\ SqDistToFirst > 0
  /\ SqDistToFirst < w_points[1].radius * w_points[1].radius
  /\ w_global > 0

\* C3: with a single stretch point c and a vertex at distance >= c.radius
\* from it (equal included), the vertex-warp function returns the vertex
\* unchanged, for every strength, global strength and kernel.
C3_OutsideRadiusUnchanged ==
  ( /\ w_num = 1
    /\ w_points[1].type = 0
    /\ SqDistToFirst >= w_points[1].radius * w_points[1].radius )
  =>
    /\ (w_web # NoResult => w_web = w_position)
    /\ (w_metal # NoResult => w_metal = w_position)

\* C3 witness: both shaders ran on a vertex exactly at the radius of a
\* single stretch point of positive strength.
C3_Witness ==
  /\ w_num = 1
  /\ w_points[1].type = 0
  /\ w_points[1].strength > 0
  /\ w_global > 0
  /\ SqDistToFirst = w_points[1].radius * w_points[1].radius
  /\ w_web # NoResult
  /\ w_metal # NoResult

\* C4: for every vertex in the unit square, every point list and every
\* parameter setting, the position the vertex-warp function returns has both
\* coordinates in [0,1], in the WebGL shader and in the Metal shader.
C4_ResultInUnitSquare ==
  /\ (w_web # NoResult => InUnitSquare(w_web))
  /\ (w_metal # NoResult => InUnitSquare(w_metal))

-----------------------------------------------------------------------------
(* The 16 point cap (checked under SpecCap)                                *)

FieldCap == 16

\* the first min(n, 16) points of a store
FirstSixteen(store) == SubSeq(store, 1, IF Len(store) < FieldCap THEN Len(store) ELSE FieldCap)

\* the field of a point list with every point of the list contributing
UncappedWebField(list, global) ==
  [v \in ProbeVertices |-> WebLoop(1, Len(list), v, v, list, global)]

UncappedMetalField(list, global, interp) ==
  [v \in ProbeVertices |->
     clamp2(MetalLoop(1, Len(list), v, v, list, global, interp), 0, SCALE)]

-----------------------------------------------------------------------------
(* The control point stores (checked under SpecStore)                      *)

WebPointInRange(p) ==
  /\ p.x >= 0 /\ p.x <= SCALE
  /\ p.y >= 0 /\ p.y <= SCALE
  /\ p.strength >= 0 /\ p.strength <= 2 * SCALE
  /\ p.radius > 0 /\ p.radius <= SCALE

SwiftPointInRange(p) ==
  /\ p.position[1] >= 0 /\ p.position[1] <= SCALE
  /\ p.position[2] >= 0 /\ p.position[2] <= SCALE
  /\ p.strength >= 0 /\ p.strength <= 2 * SCALE
  /\ p.radius > 0 /\ p.radius <= SCALE

WebStoreInRange ==
  /\ \A i \in 1..Len(e_points) : WebPointInRange(e_points[i])
  /\ e_global >= 0 /\ e_global <= 2 * SCALE

SwiftStoreInRange ==
  /\ \A i \in 1..Len(s_points) : SwiftPointInRange(s_points[i])
  /\ s_global >= 0 /\ s_global <= 2 * SCALE

\* C5: after any sequence of store writes, in the web app and in the Swift
\* app, every stored point has x and y in [0,1], strength in [0,2] and radius
\* in (0,1], and the global strength is in [0,2].
C5_StoredValuesInRange == WebStoreInRange /\ SwiftStoreInRange

WebLockedKeepPosition ==
  \A i \in 1..Len(e_points) : \A j \in 1..Len(e_points') :
    (e_points[i].locked /\ e_points'[j].id = e_points[i].id)
      => (e_points'[j].x = e_points[i].x /\ e_points'[j].y = e_points[i].y)

SwiftLockedKeepPosition ==
  \A i \in 1..Len(s_points) : \A j \in 1..Len(s_points') :
    (s_points[i].isLocked /\ s_points'[j].id = s_points[i].id)
      => s_points'[j].position = s_points[i].position

\* C6: no step of the editors (mouse-down and drag in the web VideoEditor, the
\* drag gesture of ControlPointView and updateControlPoint(position:) in the
\* Swift app) changes the position of a point whose locked flag is set.
C6_LockedPositionNeverEdited ==
  [][WebLockedKeepPosition /\ SwiftLockedKeepPosition]_vars

WebIdsFresh ==
  /\ Cardinality(WebIds(e_points)) = Len(e_points)
  /\ WebIds(e_points) \cap e_retired = {}

SwiftIdsFresh ==
  /\ Cardinality(SwiftIds(s_points)) = Len(s_points)
  /\ SwiftIds(s_points) \cap s_retired = {}

\* C7: in every reachable store state the points have pairwise distinct ids,
\* and no point of the store carries the id of a point removed earlier, for
\* any sequence of adds and removes (two adds in quick succession included).
C7_IdsUniqueNeverReused == WebIdsFresh /\ SwiftIdsFresh

-----------------------------------------------------------------------------
(* Mesh generation (checked under SpecMesh)                                *)

WebMeshDone == m_engine = "web" /\ g_pc = "done"
MetalMeshDone == m_engine = "metal" /\ k_base = MeshGridThreads

VertexCount(R) == (R + 1) * (R + 1)
IndexCount(R) == 6 * R * R

\* C8: for the resolution the code supports (32), createMesh yields exactly
\* (R+1)^2 vertices and 6*R^2 index entries, every entry of the Uint16 index
\* buffer is below (R+1)^2; and a complete dispatch of generateMesh writes
\* exactly the vertex slots 0..(R+1)^2-1 and the index slots 0..6*R^2-1, every
\* index value below (R+1)^2. While createMesh is in its loops the lists hold
\* exactly what the completed iterations account for: two numbers per vertex
\* visited and six per cell visited, a row being R+1 vertices and R cells.
C8_MeshSizesAndIndexRange ==
  /\ (m_engine = "web" /\ g_pc = "vertices") =>
       /\ Len(g_vertices) = 2 * (g_y * (meshResolution + 1) + g_x)
       /\ Len(g_texCoords) = Len(g_vertices)
  /\ (m_engine = "web" /\ g_pc = "cells") =>
       Len(g_indices) = 6 * (g_y * meshResolution + g_x)
  /\ WebMeshDone =>
       /\ Len(g_vertices) = 2 * VertexCount(meshResolution)
       /\ Len(g_texCoords) = 2 * VertexCount(meshResolution)
       /\ Len(g_vertexBuffer) = 4 * VertexCount(meshResolution)
       /\ Len(g_indexBuffer) = IndexCount(meshResolution)
       /\ \A i \in 1..Len(g_indexBuffer) :
            g_indexBuffer[i] >= 0 /\ g_indexBuffer[i] < VertexCount(meshResolution)
  /\ MetalMeshDone =>
       /\ DOMAIN k_vertices = 0..(VertexCount(MESH_RESOLUTION) - 1)
       /\ DOMAIN k_indices = 0..(IndexCount(MESH_RESOLUTION) - 1)
       /\ \A i \in DOMAIN k_indices :
            k_indices[i] >= 0 /\ k_indices[i] < VertexCount(MESH_RESOLUTION)

\* createMesh has returned and the last index entry is the last vertex
C8_Witness ==
  /\ WebMeshDone
  /\ Len(g_indexBuffer) = IndexCount(meshResolution)
  /\ g_indexBuffer[Len(g_indexBuffer)] = VertexCount(meshResolution) - 1

-----------------------------------------------------------------------------
(* Life cycle of the web VideoProcessor (checked under SpecLife)           *)

\* C9: once destroy() has been called, a render() call returns without a GL
\* command and without using a null or deleted handle, whatever loadVideo,
\* callbacks, updateWarpPoints, updateSettings and destroy calls surround it,
\* and isInitialized stays false.
C9_NoRenderWorkAfterDestroy ==
  /\ l_destroyed => ~l_isInitialized
  /\ l_lastRenderLate => (l_lastRender = "returned" /\ ~l_usedReleased)
  /\ l_lastRender = "drew" => ~l_usedReleased

\* a render() after destroy() and after a later loadVideo: video is set again
C9_Witness ==
  /\ l_destroyed
  /\ l_lastRenderLate
  /\ l_video # NoVideo
  /\ l_lastRender = "returned"

\* C10: after destroy() every GL object the processor created (texture, vertex
\* buffer, index buffer, program and its two compiled shaders) has been
\* deleted and no handle is left in the processor.
C10_DestroyReleasesEverything ==
  l_destroyed =>
    /\ l_live = {}
    /\ l_texture = Null /\ l_vertexBuffer = Null
    /\ l_indexBuffer = Null /\ l_shaderProgram = Null

-----------------------------------------------------------------------------
(* Acquisition failures (checked under SpecBoot)                           *)

\* C11: if an acquisition fails during initialization (web: context, shader,
\* program, link; Swift: Metal device, command queue), an error reaches the
\* caller, the instance never becomes ready and no tick does work on it.
C11_InitFailureIsFatal ==
  (b_fault \notin {"pending", "none"}) =>
    /\ b_error
    /\ ~l_isInitialized /\ ~b_isLoaded
    /\ l_lastRender # "drew" /\ b_frames = 0

-----------------------------------------------------------------------------
(* A tick without an uploadable frame (checked under SpecLife)             *)

\* C12: a render() that runs while no frame can be uploaded (no video, or the
\* video below HAVE_CURRENT_DATA) leaves the canvas as it was: it is neither
\* cleared nor redrawn.
C12_TickWithoutFrameKeepsSurface ==
  [][(render /\ ~FrameUploadable(l_video, l_ready)) => l_surface' = l_surface]_vars

-----------------------------------------------------------------------------
(* Snapshots and freshness (checked under SpecSync)                        *)

\* C13: what the renderer holds is always a list value taken from the store
\* between two mutations, and every tick evaluates such a list, never one
\* with a mutation part-way through.
C13_TickSeesCompleteStore ==
  /\ y_held.complete
  /\ y_tick.ran => y_tick.complete

\* a tick ran while updateControlPoint had written the position but not yet
\* the strength and the radius
C13_Witness ==
  /\ y_tick.ran
  /\ y_pc.stage \in {"strength", "radius"}
  /\ ~y_storeComplete

\* C14: the points and parameters of every tick equal the contents of the
\* store at the start of that tick.
C14_TickUsesStoreAtTickStart ==
  y_tick.ran => y_tick.fresh

-----------------------------------------------------------------------------
(* One tick at a time (checked under SpecTick)                             *)

\* C15: at most one call of render or destroy is executing at any time; a
\* tick requested meanwhile waits in the queue.
C15_OneTickAtATime == Len(t_active) <= 1

\* render is drawing while another timeupdate request waits
C15_Witness ==
  /\ Len(t_active) = 1 /\ t_active[1] = "draw"
  /\ t_queue # <<>> /\ Head(t_queue) = "timeupdate"

-----------------------------------------------------------------------------
(* Further properties of the vertex-warp function (checked under SpecWarp) *)

C17_StoredKindDecidesDirection ==
  LET c == w_points[1]
      offset == <<w_position[1] - c.position[1], w_position[2] - c.position[2]>>
      d2 == offset[1] * offset[1] + offset[2] * offset[2]
      Away(r) == \A k \in 1..2 : (r[k] - w_position[k]) * offset[k] >= 0
      Toward(r) == \A k \in 1..2 : (r[k] - w_position[k]) * offset[k] <= 0
      Applied(r) == IF c.type = 0 THEN Away(r) ELSE Toward(r)
  IN (/\ w_num = 1
      /\ 0 < d2 /\ d2 < c.radius * c.radius
      /\ c.strength > 0 /\ w_global > 0) =>
       /\ w_web # NoResult => Applied(w_web)
       /\ w_metal # NoResult => Applied(w_metal)

\* C18: one stretch point in the buffer acting on the vertex at raw
\* influence t: the displacement in the result of either shader is the one
\* of weight t when the interpolation setting is linear (0) and of weight
\* t*t*(3 - 2t) when it is smooth (1) or elastic (2).
C18_SelectedKernelIsApplied ==
  LET c == w_points[1]
      offset == <<w_position[1] - c.position[1], w_position[2] - c.position[2]>>
      distance == length(offset)
      t == RawInfluence(distance, c.radius)
      weight == IF w_interp = 0 THEN t ELSE Hermite(t)
      d == AlongDirection(offset, distance,
                          Amount(c.strength, weight, w_global), StretchInv)
      expected == <<w_position[1] + d[1], w_position[2] + d[2]>>
  IN (/\ w_num = 1 /\ c.type = 0
      /\ MetalEpsilon <= distance /\ distance < c.radius) =>
       /\ w_web # NoResult => w_web = expected
       /\ w_metal # NoResult => w_metal = MetalClamp(expected)

\* C19: with the linear kernel selected, the contribution of every point of
\* the buffer at twice the global strength is twice its contribution at the
\* global strength, up to the rounding of the fixed-point products (one unit
\* per factor), in both shaders.
C19_ContributionLinearInGlobalStrength ==
  LET k == 2
      Abs(x) == IF x >= 0 THEN x ELSE -x
      Scaled(one, many) ==
        \A j \in 1..2 :
          Abs((many[j] - w_position[j]) - k * (one[j] - w_position[j])) <= k
  IN (w_interp = 0 /\ w_web # NoResult /\ w_metal # NoResult) =>
       \A i \in 1..w_num :
         /\ Scaled(WebStep(w_position, w_position, w_points[i], w_global),
                   WebStep(w_position, w_position, w_points[i], k * w_global))
         /\ Scaled(MetalStep(w_position, w_position, w_points[i], w_global, 0),
                   MetalStep(w_position, w_position, w_points[i], k * w_global, 0))

\* both shaders have evaluated a buffer holding a stretch point and an anchor
\* point that each displace the vertex, linear kernel, global strength 1.0
C19_Witness ==
  /\ w_interp = 0 /\ w_global = SCALE /\ w_num = 2
  /\ w_web # NoResult /\ w_metal # NoResult
  /\ w_points[1].type = 0 /\ w_points[2].type = 1
  /\ \A i \in 1..2 :
       /\ MetalStep(w_position, w_position, w_points[i], w_global, 0) # w_position
       /\ WebStep(w_position, w_position, w_points[i], w_global) # w_position

\* C20: one stretch point in the buffer: no vertex that is at least as far
\* from the point as the evaluated vertex, and within the radius, is
\* displaced further than the evaluated vertex, in either shader and for
\* each interpolation setting.  The vertices compared lie on the horizontal
\* or the vertical line through the point, where the fixed-point distance
\* is exact.
C20_MagnitudeNonIncreasingInDistance ==
  LET c == w_points[1]
      Dist2(q) == (q[1] - c.position[1]) * (q[1] - c.position[1])
                  + (q[2] - c.position[2]) * (q[2] - c.position[2])
      Mag2(q, r) == (r[1] - q[1]) * (r[1] - q[1]) + (r[2] - q[2]) * (r[2] - q[2])
      OnAxis(q) == q[1] = c.position[1] \/ q[2] = c.position[2]
  IN (/\ w_num = 1 /\ c.type = 0 /\ OnAxis(w_position)
      /\ w_web # NoResult /\ w_metal # NoResult) =>
       \A q \in WarpVertices :
         (/\ OnAxis(q)
          /\ Dist2(w_position) <= Dist2(q)
          /\ Dist2(q) <= c.radius * c.radius) =>
           /\ Mag2(w_position, w_web)
                >= Mag2(q, WebApplyWarp(q, w_points, w_num, w_global))
           /\ Mag2(w_position, w_metal)
                >= Mag2(q, MetalApplyWarp(q, w_points, w_num, w_global, w_interp))

C22_CoincidingPointIsSkipped ==
  LET Distance(c) == length(<<w_position[1] - c.position[1],
                              w_position[2] - c.position[2]>>)
  IN /\ \A i \in 1..w_num :
          /\ Distance(w_points[i]) = 0 =>
               WebStep(w_position, w_position, w_points[i], w_global) = w_position
          /\ Distance(w_points[i]) < MetalEpsilon =>
               MetalStep(w_position, w_position, w_points[i], w_global, w_interp)
                 = w_position
     /\ (w_num = 1 /\ w_points[1].type = 0 /\ w_points[1].position = w_position) =>
          /\ w_web # NoResult => w_web = w_position
          /\ w_metal # NoResult => w_metal = w_position

\* both shaders have evaluated a vertex that lies on a stretch point and on
\* an anchor point of positive strength
C22_Witness ==
  /\ w_web # NoResult /\ w_metal # NoResult /\ w_global > 0
  /\ w_num = 2
  /\ w_points[1].type = 0 /\ w_points[2].type = 1
  /\ w_points[1].position = w_position /\ w_points[2].position = w_position

\* C23: the mesh in the buffers of a draw was built under the quality tier
\* the draw is made with: a tier change through updateSettings is followed
\* by a createMesh before the next drawElements.
C23_MeshBuiltForCurrentQuality ==
  l_surface.drawn => l_mesh.quality = l_surface.settings.quality

\* C24: entry e of the index buffer is the corner e mod 6 of the triangles
\* (topLeft, bottomLeft, topRight), (topRight, bottomLeft, bottomRight) of the
\* cell number e div 6 in row-major order, and vertex number y*(R+1)+x has
\* position and texture coordinates (x/R, y/R), in the buffers createMesh
\* uploads and in the buffers a complete generateMesh dispatch has written:
\* the two hold the same mesh. The six entries of a generateMesh thread are
\* those corners from the moment the thread has run (looked at for the
\* threads at the front of the dispatch, where every thread is right after it
\* runs), whichever other threads have run before it.
C24_CellTrianglesAndVertexUV ==
  LET Corner(e, R) ==
        LET cell == e \div 6
            x == cell % R
            y == cell \div R
            topLeft == y * (R + 1) + x
            bottomLeft == (y + 1) * (R + 1) + x
        IN CASE e % 6 = 0 -> topLeft
             [] e % 6 \in {1, 4} -> bottomLeft
             [] e % 6 \in {2, 3} -> topLeft + 1
             [] OTHER -> bottomLeft + 1
      UV(n, R) == <<MeshCoord(n % (R + 1), R), MeshCoord(n \div (R + 1), R)>>
  IN /\ WebMeshDone =>
          LET R == meshResolution
              V == VertexCount(R)
          IN /\ \A e \in 0..(IndexCount(R) - 1) : g_indexBuffer[e + 1] = Corner(e, R)
             /\ \A n \in 0..(V - 1) :
                  /\ <<g_vertexBuffer[2 * n + 1], g_vertexBuffer[2 * n + 2]>> = UV(n, R)
                  /\ <<g_vertexBuffer[2 * V + 2 * n + 1],
                       g_vertexBuffer[2 * V + 2 * n + 2]>> = UV(n, R)
     /\ m_engine = "metal" =>
          \A t \in (k_base - MeshWindow)..(k_base + MeshWindow - 1) :
            LET R == MESH_RESOLUTION
                x == t % (R + 1)
                y == t \div (R + 1)
                first == 6 * (y * R + x)
            IN (/\ t >= 0 /\ t < VertexCount(R)
                /\ (t < k_base \/ t \in k_ahead)
                /\ x < R /\ y < R) =>
                 \A j \in 0..5 : k_indices[first + j] = Corner(first + j, R)
     /\ MetalMeshDone =>
          LET R == MESH_RESOLUTION
          IN /\ DOMAIN k_indices = 0..(IndexCount(R) - 1)
             /\ \A n \in 0..(VertexCount(R) - 1) :
                  /\ k_vertices[n].position = UV(n, R)
                  /\ k_vertices[n].texCoords = UV(n, R)

\* the dispatch is complete; the last cell's second triangle ends at the last
\* vertex, which is at (1.0, 1.0)
C24_Witness ==
  /\ MetalMeshDone
  /\ k_indices[IndexCount(MESH_RESOLUTION) - 1] = VertexCount(MESH_RESOLUTION) - 1
  /\ k_vertices[VertexCount(MESH_RESOLUTION) - 1].position = <<MeshOne, MeshOne>>

-----------------------------------------------------------------------------
(* The monitoring loop (checked under SpecMon)                             *)

\* C25: whatever startMonitoring and stopMonitoring calls and animation
\* frames have happened, requestAnimationFrame holds at most one
\* updateMetrics callback.
C25_OneMetricsLoop == p_pending <= 1

-----------------------------------------------------------------------------
(* The Swift processor and ContentView (checked under SpecProc)            *)

\* C26: when reset() has returned the processor holds nothing of the video
\* it had: no control points, isLoaded false, no asset, no video composition;
\* and exportVideo() called while no video is loaded throws noVideoLoaded.
C26_ResetForgetsVideo ==
  /\ v_result.call = "reset" =>
       /\ v_controlPoints = 0 /\ ~v_isLoaded
       /\ v_asset = NoAsset /\ v_videoComposition = NoAsset
  /\ (v_result.call = "exportVideo" /\ ~v_isLoaded) =>
       v_result.thrown = "noVideoLoaded"

\* C27: a loadVideo(from:) that throws sets errorMessage, leaves isProcessing
\* false, delivers the error to its caller, and changes neither asset,
\* player, playerItem, videoMetadata nor isLoaded.
C27_FailedLoadKeepsState ==
  [][(LoadVideoTask /\ v_result'.thrown # "none") =>
       /\ v_errorMessage' /\ ~v_isProcessing' /\ n_errorMessage'
       /\ v_asset' = v_asset /\ v_player' = v_player
       /\ v_playerItem' = v_playerItem
       /\ v_videoMetadata' = v_videoMetadata
       /\ v_isLoaded' = v_isLoaded]_vars

\* C28: whenever isLoading is true it is false again later (checked under
\* SpecProcFair).
C28_LoadingEnds == n_isLoading ~> ~n_isLoading

-----------------------------------------------------------------------------
(* VideoUploader (checked under SpecUpload)                                *)

\* C29: every file passed to onVideoUpload is at most MAX_FILE_SIZE bytes,
\* has a MIME type of SUPPORTED_VIDEO_FORMATS and had its metadata loaded;
\* every run of handleFileSelect that has returned left isProcessing false;
\* a run whose file was rejected or whose metadata failed to load left an
\* error message and did not call onVideoUpload.
C29_UploadOnlyValidatedFiles ==
  /\ \A run \in u_uploaded :
       /\ run.file.size <= MAX_FILE_SIZE
       /\ run.file.type \in SUPPORTED_VIDEO_FORMATS
       /\ \E f \in u_finished : f.id = run.id /\ f.outcome = "uploaded"
  /\ \A f \in u_finished :
       /\ ~f.isProcessing
       /\ (f.file.size > MAX_FILE_SIZE \/ f.file.type \notin SUPPORTED_VIDEO_FORMATS)
            => f.outcome = "rejected"
       /\ f.outcome # "uploaded" =>
            /\ f.error
            /\ \A run \in u_uploaded : run.id # f.id

\* a file of an unlisted type was rejected and a file of exactly the size
\* limit was uploaded
C29_Witness ==
  /\ \E f \in u_finished :
       f.outcome = "rejected" /\ f.file.size = MAX_FILE_SIZE
  /\ \E run \in u_uploaded : run.file.size = MAX_FILE_SIZE

-----------------------------------------------------------------------------
(* Export (checked under SpecExport)                                       *)

\* C30: at most one export is running at any time, and between two handlers
\* of the web app isExporting is false.
C30_OneExportAtATime ==
  /\ Cardinality(x_tasks) <= 1
  /\ ~x_webIsExporting

====
